---- MODULE Spec2Model ----
(***************************************************************************)
(* SecureVault: one backup run (Backup::execute driving                    *)
(* TarGzFileBackupStrategy::execute and its worker threads, then           *)
(* verifyBackup, ownership change, transfer and cleanup) and the daemon    *)
(* loop (Backup::runDaemon with Backup::getNextBackupTime).                *)
(*                                                                         *)
(* Spec is one run; SpecCleanup is cleanupOldBackups over any folders;      *)
(* SpecSchedule is getNextBackupTime over any schedule; SpecDaemon is the   *)
(* daemon loop with the run as one step, SpecDaemonFair the same under      *)
(* fairness, and SpecDaemonRuns the loop with the runs it triggers.         *)
(*                                                                         *)
(* Time is counted in clock ticks; a second is TicksPerSec ticks.  The     *)
(* marker file holds whole seconds, file modification times and the clock  *)
(* have tick resolution.                                                   *)
(***************************************************************************)
EXTENDS Integers, Sequences, FiniteSets, TLC

\* ------------------------------------------------------------------ bounds

\* Clock ticks per second (sub-second resolution of system_clock).
TicksPerSec == 2
\* Largest whole-second value an initial marker file holds.
MaxMarkerSec == 2
\* Largest number of ticks the clock advances between two consecutive now() calls.
MaxJitter == 1
\* The second at which the run starts.
StartSec == 12
\* The length of a day of the daemon's calendar, in seconds (a day scaled down).
DaySeconds == 4
\* The number of days the daemon is followed for.
MaxDays == 3
\* The number of loop iterations the daemon is followed for.
MaxComputations == 4
\* Largest number of ticks a backup run triggered by the daemon takes.
MaxRunTicks == 2
\* The seconds of the daemon's backoff after an error (60 of a real day's
\* 86400), on the scale of the day above.
BackoffSeconds == 1
\* Largest config.retentionDays.
MaxRetentionDays == 2
\* The days after the first of January up to which schedules are computed.
MaxSchedDays == 61

\* Largest number of ticks the clock advances while two runs in a row are
\* followed.
MaxElapsed == 2

\* A day (24 hours), in ticks.
DayTicks == DaySeconds * TicksPerSec

\* ------------------------------------------------------- the file system

\* config.backupDirs: the source directories, in configuration order.
sourceDirs == <<"/srv", "/etc">>

\* What recursive_directory_iterator yields for each source directory, in
\* traversal order.  mtime is in ticks; reads is the number of iterations the
\* 8192-byte copy loop makes for the file.
Listing ==
  [d \in {"/srv", "/etc"} |->
     IF d = "/srv"
     THEN << [path |-> "/srv/a.txt", kind |-> "file", ext |-> ".txt",
              mtime |-> TicksPerSec, reads |-> 2, readable |-> TRUE],
             [path |-> "/srv/b.log", kind |-> "file", ext |-> ".log",
              mtime |-> TicksPerSec + 1, reads |-> 1, readable |-> TRUE] >>
     ELSE << [path |-> "/etc/sub", kind |-> "dir", ext |-> "",
              mtime |-> 2 * TicksPerSec, reads |-> 0, readable |-> TRUE],
             [path |-> "/etc/passwd", kind |-> "file", ext |-> "",
              mtime |-> 0, reads |-> 1, readable |-> TRUE] >>]

Workers == 1..Len(sourceDirs)

Entries == UNION {{Listing[d][i] : i \in 1..Len(Listing[d])} : d \in DOMAIN Listing}

RegularFiles == {e \in Entries : e.kind = "file"}

\* The backup types a run may be given: one that Backup::execute accepts and
\* one (a schedule type) that it does not.
TypeChoices == {"daily", "weekly"}

\* The exclusion sets a configuration may hold.
ExcludeChoices == SUBSET {"", ".log"}

\* -------------------------------------------------- the marker file text

Digits == <<"0", "1", "2", "3", "4", "5", "6", "7", "8", "9">>

IsDigit(c) == \E i \in 1..10 : Digits[i] = c

DigitVal(c) == (CHOOSE i \in 1..10 : Digits[i] = c) - 1

RECURSIVE ToDigits(_)
\* operator<< of a non-negative time_t: its decimal digits.
ToDigits(n) == IF n < 10 THEN <<Digits[n + 1]>>
               ELSE Append(ToDigits(n \div 10), Digits[(n % 10) + 1])

RECURSIVE DigitPrefix(_, _)
\* The value of the longest prefix of digits of s, continuing from acc.
DigitPrefix(s, acc) ==
  IF s = <<>> \/ ~IsDigit(Head(s)) THEN acc
  ELSE DigitPrefix(Tail(s), 10 * acc + DigitVal(Head(s)))

\* A conversion that takes only a text made of digits alone.
Stol_WholeText(s) ==
  IF s # <<>> /\ \A i \in 1..Len(s) : IsDigit(s[i])
  THEN [ok |-> TRUE, val |-> DigitPrefix(s, 0)]
  ELSE [ok |-> FALSE, val |-> 0]

\* std::stol: an optional sign, then the longest run of digits; anything after
\* it is ignored; no digit at all throws std::invalid_argument.
Stol(s) ==
  LET neg  == s # <<>> /\ Head(s) = "-"
      body == IF neg THEN Tail(s) ELSE s
  IN IF body = <<>> \/ ~IsDigit(Head(body))
     THEN [ok |-> FALSE, val |-> 0]
     ELSE [ok |-> TRUE,
           val |-> IF neg THEN 0 - DigitPrefix(body, 0) ELSE DigitPrefix(body, 0)]

\* The marker files a run may start with: none, an empty one, text that is no
\* number, a number followed by text, and the seconds 0..MaxMarkerSec.
MarkerChoices ==
  {[exists |-> FALSE, text |-> <<>>],
   [exists |-> TRUE, text |-> <<>>],
   [exists |-> TRUE, text |-> <<"x">>],
   [exists |-> TRUE, text |-> <<"1", "x">>]}
  \cup {[exists |-> TRUE, text |-> ToDigits(n)] : n \in 0..MaxMarkerSec}


\* ------------------------------------------------------------------ state

VARIABLES
  daemonMode,           \* whether the run is one the daemon triggered
  type,                 \* the run's backup type argument
  fullBackup,           \* the run's fullBackup argument
  excludeExtensions,    \* config.excludeExtensions
  notificationStrategy, \* whether Backup holds a notification strategy
  transferStrategy,     \* whether Backup holds a transfer strategy
  lastBackupFile,       \* the marker file: [exists, text]
  gShutdownFlag,        \* the process-wide cancellation flag
  now,                  \* system_clock, in ticks
  pc,                   \* where Backup::execute / TarGzFileBackupStrategy::execute is
  dbBackupFile,         \* "" or the database artifact's path
  dbResult,             \* what dbStrategy->execute came to: "none" before the call
  totalFiles,           \* countFiles' result
  counted,              \* the paths countFiles counted
  arState,              \* the archive file: "absent", "open" (being written), "closed"
  arEntries,            \* the entries written: [path, size, written (reads), whole]
  arIntact,             \* the number of entry headers a reader can decode
  arDamaged,            \* whether the stream ends without its end-of-archive
  archiveMutex,         \* 0 or the worker holding the mutex
  wpc,                  \* each worker thread's position
  widx,                 \* each worker's position in its directory's traversal
  wleft,                \* iterations left of the copy loop of the worker's file
  processedFiles,       \* the shared progress counter
  visited,              \* the paths the workers examined
  scanSelected,         \* the paths that passed the workers' selection
  fileResult,           \* what TarGzFileBackupStrategy::execute returned
  verifyResult,         \* what verifyBackup returned: "none", "true", "error"
  verifyEnd,            \* what ended verifyBackup's header loop
  result,               \* what Backup::execute returned
  calls,                \* the collaborator calls made, in order
  markerPre,            \* the marker file as the run found it
  markerWrites,         \* how many times the run wrote the marker file
  sigPhase,             \* pc when the signal arrived, or "none"
  transferFailures      \* the transfers of the run that failed: "sys", "db"

runVars == <<daemonMode, type, fullBackup, excludeExtensions, notificationStrategy,
             transferStrategy, lastBackupFile, gShutdownFlag, now, pc, dbBackupFile, dbResult,
             totalFiles, counted, arState, arEntries, arIntact, arDamaged,
             archiveMutex, wpc, widx, wleft, processedFiles, visited, scanSelected,
             fileResult, verifyResult, verifyEnd, result, calls, markerPre,
             markerWrites, sigPhase, transferFailures>>

\* The daemon's state (Backup::runDaemon).
VARIABLES
  dpc,            \* where runDaemon is
  scheduleTime,   \* config.scheduleTime, as the second of the day
  nextBackup,     \* the nextBackup of the current loop iteration, in ticks
  remaining,      \* the seconds left of the current sleep
  sleptToward,    \* the run times the daemon has started to sleep toward
  runLog,         \* the run times for which a backup run was triggered
  computations    \* how many times the loop has called getNextBackupTime

daemonVars == <<dpc, scheduleTime, nextBackup, remaining, sleptToward, runLog,
                computations>>

\* The backup folders and the cleanup (Backup::cleanupOldBackups).
VARIABLES
  retentionDays,  \* config.retentionDays
  artifactTime,   \* the last-write time, in ticks, of each entry the folders held
  present,        \* the entries the folders hold now
  cpc,            \* where cleanupOldBackups is
  cfolder,        \* the index of the folder being iterated
  cseen,          \* the entries of that folder the iteration has yielded
  threshold,      \* now - hours(24 * retentionDays), in ticks
  cleanupResult   \* "none", "ok", "error" (returned) or "threw" (an exception)

cleanVars == <<retentionDays, artifactTime, present, cpc, cfolder, cseen, threshold,
               cleanupResult>>

\* The schedule of the configuration (Backup::getNextBackupTime).
VARIABLES
  scheduleType,        \* config.scheduleType
  scheduleDayOfWeek,   \* config.scheduleDayOfWeek
  scheduleDayOfMonth,  \* config.scheduleDayOfMonth
  spc                  \* where a call of getNextBackupTime is: "off", "call",
                       \* "returned" or "threw"

schedVars == <<scheduleType, scheduleDayOfWeek, scheduleDayOfMonth, spc>>

\* The process (main).
VARIABLES
  mpc,           \* where main is: "off", "args", "oneshot", "daemon", "exit"
  exitCode,      \* what main returned, -1 while it has not
  argType,       \* the backup type on the command line, "" when none is given
  configLoads,   \* whether the configuration file can be loaded
  logFileOpens   \* whether config.logFile can be opened for appending

mainVars == <<mpc, exitCode, argType, configLoads, logFileOpens>>

\* The source files as other programs change them, and the runs in a row.
VARIABLES
  touched,       \* for each source file, the time it was last written since
                 \* the start, in ticks, or -1 when it has not been
  lateTouched,   \* the files written after the first run examined them and
                 \* before it wrote the marker
  runNo,         \* which run of the row goes on: 1 or 2
  dirState,      \* for each source directory: "ok", "missing" (it does not
                 \* exist) or "denied" (its status cannot be read)
  unreadable     \* the source files that cannot be opened for reading

envVars == <<touched, lateTouched, runNo, dirState, unreadable>>

vars == <<runVars, daemonVars, cleanVars, schedVars, mainVars, envVars>>

\* No source file is written while the program is followed, and one run is.
EnvOff ==
  /\ touched = [p \in {e.path : e \in RegularFiles} |-> -1]
  /\ lateTouched = {}
  /\ runNo = 1
  /\ dirState = [d \in DOMAIN Listing |-> "ok"]
  /\ unreadable = {}

\* fs::last_write_time(path): the time of the last write to the file.
LastWriteTime(e) == IF touched[e.path] >= 0 THEN touched[e.path] ELSE e.mtime

\* No process is followed: the run, the cleanup, the schedule computation or
\* the daemon loop is taken on its own.
MainOff ==
  /\ mpc = "off"
  /\ exitCode = -1
  /\ argType = ""
  /\ configLoads = TRUE
  /\ logFileOpens = TRUE

Interrupted == "Backup interrupted by signal"

\* What Backup::execute's caller gets when an exception leaves it.
Threw == "exception"

OpenFailed == "Failed to open archive file"

\* --------------------------------------------------------- file selection

\* isExcluded with its membership test inverted (find(...) == end()).
isExcluded_Inverted(ext) == ext # "" /\ ext \notin excludeExtensions

\* The isExcluded lambda of countFiles and backupDirectory.
isExcluded(ext) == ext # "" /\ ext \in excludeExtensions

\* The marker time read from marker file m, in ticks: the epoch unless the run
\* is incremental, the file exists, and its first line is not empty and parses.
LastBackupTimeOf(m, full) ==
  IF ~full /\ m.exists
  THEN IF m.text # <<>> /\ Stol(m.text).ok
       THEN Stol(m.text).val * TicksPerSec
       ELSE 0
  ELSE 0

\* lastBackupTime as countFiles computes it.
CountLastBackupTime(full) == LastBackupTimeOf(lastBackupFile, full)

\* lastBackupTime as backupDirectory computes it.
ScanLastBackupTime(full) == LastBackupTimeOf(lastBackupFile, full)

\* The two now() calls made for one file: each returns the clock plus at most
\* MaxJitter ticks, in either order of evaluation.
ClockReads == (0..MaxJitter) \X (0..MaxJitter)

\* fileTime = now() - (now() - to_sys(lastWrite)).
FileTime(nowOuter, nowInner, lastWrite) == nowOuter - (nowInner - lastWrite)

\* countFiles' test: fullBackup || fileTime > lastBackupTime.
CountSelects(full, fileTime, lastBackupTime) == full \/ fileTime > lastBackupTime

\* The skip test without its !fullBackup conjunct.
ScanSkips_IgnoresFull(full, fileTime, lastBackupTime) == fileTime <= lastBackupTime

\* backupDirectory's test: !fullBackup && fileTime <= lastBackupTime skips.
ScanSkips(full, fileTime, lastBackupTime) == ~full /\ fileTime <= lastBackupTime

\* fs::exists(dir) throws fs::filesystem_error when the status of the path
\* cannot be read (an error other than "not found").
ExistsThrows(d) == dirState[d] = "denied"

\* fs::exists(dir), when it returns.
DirExists(d) == dirState[d] = "ok"

\* The files countFiles counts when its clock reads are r (path -> pair).
CountedWith(r) ==
  {f.path : f \in {e \in RegularFiles :
      /\ \E w \in Workers : DirExists(sourceDirs[w])
                            /\ \E i \in 1..Len(Listing[sourceDirs[w]]) :
                                 Listing[sourceDirs[w]][i] = e
      /\ ~isExcluded(e.ext)
      /\ CountSelects(fullBackup,
                      FileTime(now + r[e.path][1], now + r[e.path][2],
                               LastWriteTime(e)),
                      CountLastBackupTime(fullBackup))}}

\* ---------------------------------------------------------- Backup::execute

\* A notification that is never sent.
Notify_Never(cs, what) == cs

\* notificationStrategy->notify(msg), made only when a strategy is configured.
Notify(cs, what) == IF notificationStrategy THEN Append(cs, "notify:" \o what) ELSE cs

\* The backup types Backup::execute accepts.
ValidType(t) == t \in {"daily", "monthly", "yearly"}

\* The check of the type argument: an invalid type is logged and ends the run
\* with an error.
CheckType ==
  /\ pc = "start"
  /\ IF ValidType(type)
     THEN pc' = "db" /\ result' = result
     ELSE pc' = "done" /\ result' = "Invalid backup type"
  /\ UNCHANGED <<daemonMode, type, fullBackup, excludeExtensions,
                 notificationStrategy, transferStrategy, lastBackupFile,
                 gShutdownFlag, now, dbBackupFile, dbResult, totalFiles,
                 counted, arState, arEntries, arIntact, arDamaged,
                 archiveMutex, wpc, widx, wleft, processedFiles, visited,
                 scanSelected, fileResult, verifyResult, verifyEnd, calls,
                 markerPre, markerWrites, sigPhase, transferFailures,
                 daemonVars, cleanVars, schedVars, mainVars, envVars>>

\* How dbStrategy->execute(dbTargetPath) ends: with the artifact's path, with
\* an error (credentials, the dump tool, gzopen), or with the exception of
\* fs::create_directories when the folder of the artifact cannot be made.
DbOutcomes == {"value", "error", "threw"}

\* dbStrategy->execute(dbTargetPath) and the test of its result: an error is
\* logged and notified and the run goes on; an exception leaves Backup::execute.
DbBackup ==
  /\ pc = "db"
  /\ \E how \in DbOutcomes :
       /\ dbResult' = how
       /\ dbBackupFile' = IF how = "value" THEN "all_databases.sql.gz" ELSE ""
       /\ calls' = IF how = "error" THEN Notify(calls, "Database backup failed") ELSE calls
       /\ pc' = IF how = "threw" THEN "done" ELSE "count"
       /\ result' = IF how = "threw" THEN Threw ELSE result
  /\ UNCHANGED <<daemonMode, type, fullBackup, excludeExtensions,
                 notificationStrategy, transferStrategy, lastBackupFile,
                 gShutdownFlag, now, totalFiles, counted, arState, arEntries,
                 arIntact, arDamaged, archiveMutex, wpc, widx, wleft,
                 processedFiles, visited, scanSelected, fileResult,
                 verifyResult, verifyEnd, markerPre, markerWrites, sigPhase,
                 transferFailures, daemonVars, cleanVars, schedVars, mainVars,
                 envVars>>

\* ------------------------------------------- TarGzFileBackupStrategy::execute

\* execute without its early return on an empty count.
NoFilesToBackUp_Never(total) == FALSE

\* totalFiles == 0 makes TarGzFileBackupStrategy::execute return success at once.
NoFilesToBackUp(total) == total = 0

\* countFiles, and the return of execute when it counts nothing.  The
\* fs::exists(dir) of countFiles' loop is outside its try block: when it
\* throws, the exception leaves countFiles, TarGzFileBackupStrategy::execute
\* and Backup::execute.
CountFiles ==
  /\ pc = "count"
  /\ IF \E w \in Workers : ExistsThrows(sourceDirs[w])
     THEN /\ result' = Threw
          /\ pc' = "done"
          /\ UNCHANGED <<counted, totalFiles, fileResult>>
     ELSE /\ result' = result
          /\ \E r \in [{e.path : e \in RegularFiles} -> ClockReads] :
               /\ counted' = CountedWith(r)
               /\ totalFiles' = Cardinality(CountedWith(r))
               /\ IF NoFilesToBackUp(Cardinality(CountedWith(r)))
                  THEN fileResult' = "ok" /\ pc' = "fileReturned"
                  ELSE fileResult' = fileResult /\ pc' = "open"
  /\ UNCHANGED <<daemonMode, type, fullBackup, excludeExtensions,
                 notificationStrategy, transferStrategy, lastBackupFile,
                 gShutdownFlag, now, dbBackupFile, dbResult, arState,
                 arEntries, arIntact, arDamaged, archiveMutex, wpc, widx,
                 wleft, processedFiles, visited, scanSelected, verifyResult,
                 verifyEnd, calls, markerPre, markerWrites, sigPhase,
                 transferFailures, daemonVars, cleanVars, schedVars, mainVars,
                 envVars>>

\* A spawn loop that makes a thread for the first directory only.
ThreadsSpawned_FirstOnly(dirs) == {1}

\* for (const auto& dir : config.backupDirs) threads.emplace_back(...): the
\* threads made, one for each position of the list.
ThreadsSpawned(dirs) == 1..Len(dirs)

\* archive_write_open_filename, then one thread per source directory.
OpenArchive ==
  /\ pc = "open"
  /\ \E ok \in BOOLEAN :
       IF ok
       THEN /\ arState' = "open"
            /\ wpc' = [w \in Workers |->
                         IF w \in ThreadsSpawned(sourceDirs) THEN "scan" ELSE "idle"]
            /\ pc' = "join"
            /\ fileResult' = fileResult
       ELSE /\ fileResult' = OpenFailed
            /\ pc' = "fileReturned"
            /\ UNCHANGED <<arState, wpc>>
  /\ UNCHANGED <<daemonMode, type, fullBackup, excludeExtensions,
                 notificationStrategy, transferStrategy, lastBackupFile,
                 gShutdownFlag, now, dbBackupFile, dbResult, totalFiles,
                 counted, arEntries, arIntact, arDamaged, archiveMutex, widx,
                 wleft, processedFiles, visited, scanSelected, verifyResult,
                 verifyEnd, result, calls, markerPre, markerWrites, sigPhase,
                 transferFailures, daemonVars, cleanVars, schedVars, mainVars,
                 envVars>>

\* A close that leaves the archive as it is.
archive_write_close_Skipped(st) == st

\* archive_write_close(a) and archive_write_free(a): the archive file is
\* closed.
archive_write_close(st) == "closed"

\* execute without its check of the flag after the join.
InterruptedAfterJoin_Never(flag) == FALSE

\* Whether execute, after the join, takes the interruption exit.
InterruptedAfterJoin(flag) == flag

\* A join that does not wait for its thread.
Joined_NoWait(at) == TRUE

\* t.join() returns once the thread's backupDirectory has returned.
Joined(at) == at = "done"

\* The join of every thread, then the check of gShutdownFlag: set, the archive
\* is closed and execute returns the interruption error.
JoinThreads ==
  /\ pc = "join"
  /\ \A w \in Workers : Joined(wpc[w])
  /\ IF InterruptedAfterJoin(gShutdownFlag)
     THEN /\ arState' = archive_write_close(arState)
          /\ arIntact' = Len(arEntries)
          /\ fileResult' = Interrupted
          /\ pc' = "fileReturned"
     ELSE /\ pc' = "close"
          /\ UNCHANGED <<arState, arIntact, fileResult>>
  /\ UNCHANGED <<daemonMode, type, fullBackup, excludeExtensions,
                 notificationStrategy, transferStrategy, lastBackupFile,
                 gShutdownFlag, now, dbBackupFile, dbResult, totalFiles,
                 counted, arEntries, arDamaged, archiveMutex, wpc, widx,
                 wleft, processedFiles, visited, scanSelected, verifyResult,
                 verifyEnd, result, calls, markerPre, markerWrites, sigPhase,
                 transferFailures, daemonVars, cleanVars, schedVars, mainVars,
                 envVars>>

\* archive_write_close on normal completion.  Its result is discarded: when the
\* final flush fails the file ends early, after some k of the entries.
CloseArchive ==
  /\ pc = "close"
  /\ arState' = archive_write_close(arState)
  /\ \E ok \in BOOLEAN :
       IF ok
       THEN arIntact' = Len(arEntries) /\ arDamaged' = FALSE
       ELSE arDamaged' = TRUE /\ \E k \in 0..Len(arEntries) : arIntact' = k
  /\ pc' = "marker"
  /\ UNCHANGED <<daemonMode, type, fullBackup, excludeExtensions,
                 notificationStrategy, transferStrategy, lastBackupFile,
                 gShutdownFlag, now, dbBackupFile, dbResult, totalFiles,
                 counted, arEntries, archiveMutex, wpc, widx, wleft,
                 processedFiles, visited, scanSelected, fileResult,
                 verifyResult, verifyEnd, result, calls, markerPre,
                 markerWrites, sigPhase, transferFailures, daemonVars,
                 cleanVars, schedVars, mainVars, envVars>>

\* A marker that holds the second at which the run started.
MarkerText_RunStart(t) == ToDigits(StartSec)

\* lastBackup << timeT, with timeT = to_time_t(t): the whole seconds of the
\* clock, in decimal digits.
MarkerText(t) == ToDigits(t \div TicksPerSec)

\* The marker write that ends TarGzFileBackupStrategy::execute: the clock, in
\* whole seconds, replaces the file's text.
WriteMarker ==
  /\ pc = "marker"
  /\ lastBackupFile' = [exists |-> TRUE, text |-> MarkerText(now)]
  /\ markerWrites' = markerWrites + 1
  /\ fileResult' = "ok"
  /\ pc' = "fileReturned"
  /\ UNCHANGED <<daemonMode, type, fullBackup, excludeExtensions,
                 notificationStrategy, transferStrategy, gShutdownFlag, now,
                 dbBackupFile, dbResult, totalFiles, counted, arState,
                 arEntries, arIntact, arDamaged, archiveMutex, wpc, widx,
                 wleft, processedFiles, visited, scanSelected, verifyResult,
                 verifyEnd, result, calls, markerPre, sigPhase,
                 transferFailures, daemonVars, cleanVars, schedVars, mainVars,
                 envVars>>

\* ------------------------------------ TarGzFileBackupStrategy::backupDirectory

\* A file open that succeeds whatever the file.
Readable_Always(e) == TRUE

\* std::ifstream file(path, std::ios::binary); if (!file): whether the open
\* of the entry's file succeeds.
Readable(e) == e.readable /\ e.path \notin unreadable

\* The entry a worker is at.
EntryAt(w) == Listing[sourceDirs[w]][widx[w]]

\* One turn of the directory loop up to the lock: the end of the traversal, the
\* flag, the file type, the exclusion, the time test and the open of the file.
WorkerScan(w) ==
  /\ wpc[w] = "scan"
  /\ IF ~DirExists(sourceDirs[w]) \/ widx[w] > Len(Listing[sourceDirs[w]])
        \/ gShutdownFlag
     THEN /\ wpc' = [wpc EXCEPT ![w] = "done"]
          /\ UNCHANGED <<widx, visited, scanSelected>>
     ELSE IF EntryAt(w).kind # "file" \/ isExcluded(EntryAt(w).ext)
     THEN /\ widx' = [widx EXCEPT ![w] = @ + 1]
          /\ visited' = visited \cup {EntryAt(w).path}
          /\ UNCHANGED <<wpc, scanSelected>>
     ELSE \E r \in ClockReads :
            /\ visited' = visited \cup {EntryAt(w).path}
            /\ IF ScanSkips(fullBackup,
                            FileTime(now + r[1], now + r[2],
                                     LastWriteTime(EntryAt(w))),
                            ScanLastBackupTime(fullBackup))
               THEN /\ widx' = [widx EXCEPT ![w] = @ + 1]
                    /\ UNCHANGED <<wpc, scanSelected>>
               ELSE /\ scanSelected' = scanSelected \cup {EntryAt(w).path}
                    /\ IF Readable(EntryAt(w))
                       THEN wpc' = [wpc EXCEPT ![w] = "lock"] /\ widx' = widx
                       ELSE widx' = [widx EXCEPT ![w] = @ + 1] /\ wpc' = wpc
  /\ UNCHANGED <<daemonMode, type, fullBackup, excludeExtensions,
                 notificationStrategy, transferStrategy, lastBackupFile,
                 gShutdownFlag, now, pc, dbBackupFile, dbResult, totalFiles,
                 counted, arState, arEntries, arIntact, arDamaged,
                 archiveMutex, wleft, processedFiles, fileResult,
                 verifyResult, verifyEnd, result, calls, markerPre,
                 markerWrites, sigPhase, transferFailures, daemonVars,
                 cleanVars, schedVars, mainVars, envVars>>

\* A lock that is taken without waiting for its holder.
MutexFree_Always(m) == TRUE

\* Whether std::mutex::lock returns: no thread holds the mutex.
MutexFree(m) == m = 0

\* std::lock_guard: the worker waits until the mutex is free.
WorkerLock(w) ==
  /\ wpc[w] = "lock"
  /\ MutexFree(archiveMutex)
  /\ archiveMutex' = w
  /\ wpc' = [wpc EXCEPT ![w] = "locked"]
  /\ UNCHANGED <<daemonMode, type, fullBackup, excludeExtensions,
                 notificationStrategy, transferStrategy, lastBackupFile,
                 gShutdownFlag, now, pc, dbBackupFile, dbResult, totalFiles,
                 counted, arState, arEntries, arIntact, arDamaged, widx,
                 wleft, processedFiles, visited, scanSelected, fileResult,
                 verifyResult, verifyEnd, result, calls, markerPre,
                 markerWrites, sigPhase, transferFailures, daemonVars,
                 cleanVars, schedVars, mainVars, envVars>>

\* A check under the lock that never stops the worker.
StopsUnderLock_Never(flag) == FALSE

\* if (gShutdownFlag), right after the lock is taken.
StopsUnderLock(flag) == flag

\* Under the lock the flag is checked again: set, the worker returns and the
\* guard releases the mutex; else the worker goes on to write the header.
WorkerHeader(w) ==
  /\ wpc[w] = "locked"
  /\ IF StopsUnderLock(gShutdownFlag)
     THEN /\ archiveMutex' = 0
          /\ wpc' = [wpc EXCEPT ![w] = "done"]
     ELSE /\ wpc' = [wpc EXCEPT ![w] = "header"]
          /\ UNCHANGED archiveMutex
  /\ UNCHANGED <<daemonMode, type, fullBackup, excludeExtensions,
                 notificationStrategy, transferStrategy, lastBackupFile,
                 gShutdownFlag, now, pc, dbBackupFile, dbResult, totalFiles,
                 counted, arState, arEntries, arIntact, arDamaged, widx,
                 wleft, processedFiles, visited, scanSelected, fileResult,
                 verifyResult, verifyEnd, result, calls, markerPre,
                 markerWrites, sigPhase, transferFailures, daemonVars,
                 cleanVars, schedVars, mainVars, envVars>>

\* archive_write_header, by the worker that passed the check under the lock;
\* the entry records whether the flag was set by the time of the write.
WorkerWriteHeader(w) ==
  /\ wpc[w] = "header"
  /\ arEntries' = Append(arEntries, [path |-> EntryAt(w).path,
                                     size |-> EntryAt(w).reads,
                                     written |-> 0,
                                     late |-> gShutdownFlag])
  /\ wleft' = [wleft EXCEPT ![w] = EntryAt(w).reads]
  /\ wpc' = [wpc EXCEPT ![w] = "copy"]
  /\ UNCHANGED <<daemonMode, type, fullBackup, excludeExtensions,
                 notificationStrategy, transferStrategy, lastBackupFile,
                 gShutdownFlag, now, pc, dbBackupFile, dbResult, totalFiles,
                 counted, arState, arIntact, arDamaged, archiveMutex, widx,
                 processedFiles, visited, scanSelected, fileResult,
                 verifyResult, verifyEnd, result, calls, markerPre,
                 markerWrites, sigPhase, transferFailures, daemonVars,
                 cleanVars, schedVars, mainVars, envVars>>

\* The copy loop going on whatever the flag.
CopyGoesOn_IgnoresFlag(left, flag) == left > 0

\* The condition of the copy loop: the stream is good and the flag is clear.
CopyGoesOn(left, flag) == left > 0 /\ ~flag

\* while (file && !gShutdownFlag): one read and archive_write_data; when the
\* loop ends the guard's scope ends and the mutex is released.
WorkerCopy(w) ==
  /\ wpc[w] = "copy"
  /\ IF CopyGoesOn(wleft[w], gShutdownFlag)
     THEN /\ arEntries' = [arEntries EXCEPT ![Len(arEntries)].written = @ + 1]
          /\ wleft' = [wleft EXCEPT ![w] = @ - 1]
          /\ UNCHANGED <<archiveMutex, wpc>>
     ELSE /\ archiveMutex' = 0
          /\ wpc' = [wpc EXCEPT ![w] = "after"]
          /\ UNCHANGED <<arEntries, wleft>>
  /\ UNCHANGED <<daemonMode, type, fullBackup, excludeExtensions,
                 notificationStrategy, transferStrategy, lastBackupFile,
                 gShutdownFlag, now, pc, dbBackupFile, dbResult, totalFiles,
                 counted, arState, arIntact, arDamaged, widx, processedFiles,
                 visited, scanSelected, fileResult, verifyResult, verifyEnd,
                 result, calls, markerPre, markerWrites, sigPhase,
                 transferFailures, daemonVars, cleanVars, schedVars, mainVars,
                 envVars>>

\* After the lock: the flag ends the loop, else the progress counter is
\* incremented and the loop goes on to the next entry.
WorkerAfter(w) ==
  /\ wpc[w] = "after"
  /\ IF gShutdownFlag
     THEN /\ wpc' = [wpc EXCEPT ![w] = "done"]
          /\ UNCHANGED <<processedFiles, widx>>
     ELSE /\ processedFiles' = processedFiles + 1
          /\ widx' = [widx EXCEPT ![w] = @ + 1]
          /\ wpc' = [wpc EXCEPT ![w] = "scan"]
  /\ UNCHANGED <<daemonMode, type, fullBackup, excludeExtensions,
                 notificationStrategy, transferStrategy, lastBackupFile,
                 gShutdownFlag, now, pc, dbBackupFile, dbResult, totalFiles,
                 counted, arState, arEntries, arIntact, arDamaged,
                 archiveMutex, wleft, visited, scanSelected, fileResult,
                 verifyResult, verifyEnd, result, calls, markerPre,
                 markerWrites, sigPhase, transferFailures, daemonVars,
                 cleanVars, schedVars, mainVars, envVars>>

\* ------------------------------------------------ Backup::cleanupOldBackups

\* {config.sysBackupFolder, config.dbBackupFolder}, in the order of the loop.
backupFolders == <<"sys", "db">>

\* The entries the backup folders can hold: archives of earlier runs, an
\* earlier database artifact, and a subdirectory.
Artifacts ==
  { [path |-> "sys/1.tar.gz", folder |-> "sys", kind |-> "file"],
    [path |-> "sys/2.tar.gz", folder |-> "sys", kind |-> "file"],
    [path |-> "sys/tmp",      folder |-> "sys", kind |-> "dir"],
    [path |-> "db/1.sql.gz",  folder |-> "db",  kind |-> "file"] }

ArtifactPaths == {a.path : a \in Artifacts}

ArtifactAt(p) == CHOOSE a \in Artifacts : a.path = p

\* threshold = now - std::chrono::hours(24 * config.retentionDays).
Threshold(t, days) == t - days * DayTicks

\* if (fileTime < threshold)
IsOldBackup(fileTime, thr) == fileTime < thr

\* The entries of the folder being iterated that the iterator has yet to yield.
Unseen ==
  {p \in present : ArtifactAt(p).folder = backupFolders[cfolder] /\ p \notin cseen}

\* Backup::execute calls cleanupOldBackups, which reads the clock and computes
\* the threshold.
CleanupBegin ==
  /\ pc = "cleanup"
  /\ cpc = "off"
  /\ threshold' = Threshold(now, retentionDays)
  /\ cfolder' = 1
  /\ cseen' = {}
  /\ cpc' = "open"
  /\ calls' = Append(calls, "cleanup")
  /\ UNCHANGED <<daemonMode, type, fullBackup, excludeExtensions,
                 notificationStrategy, transferStrategy, lastBackupFile,
                 gShutdownFlag, now, pc, dbBackupFile, dbResult, totalFiles,
                 counted, arState, arEntries, arIntact, arDamaged,
                 archiveMutex, wpc, widx, wleft, processedFiles, visited,
                 scanSelected, fileResult, verifyResult, verifyEnd, result,
                 markerPre, markerWrites, sigPhase, transferFailures,
                 daemonVars, retentionDays, artifactTime, present,
                 cleanupResult, schedVars, mainVars, envVars>>

\* fs::directory_iterator(folder) for the next folder, which throws (outside
\* the try block, so out of cleanupOldBackups) when the folder is missing or
\* cannot be read; after the last folder cleanupOldBackups returns success.
CleanupOpenFolder ==
  /\ cpc = "open"
  /\ IF cfolder > Len(backupFolders)
     THEN /\ cleanupResult' = "ok"
          /\ cpc' = "returned"
          /\ cseen' = cseen
     ELSE \E opened \in BOOLEAN :
            IF opened
            THEN /\ cpc' = "iter"
                 /\ cseen' = {}
                 /\ cleanupResult' = cleanupResult
            ELSE /\ cleanupResult' = "threw"
                 /\ cpc' = "returned"
                 /\ cseen' = cseen
  /\ UNCHANGED <<runVars, daemonVars, retentionDays, artifactTime, present,
                 cfolder, threshold, schedVars, mainVars, envVars>>

\* A catch that logs the failed removal and lets the loop go on.
AfterFailedRemove_GoesOn(at) == at

\* catch (const std::exception&) around fs::remove: the error is logged and
\* cleanupOldBackups returns it.
AfterFailedRemove(at) == "returned"

\* One iteration of the loop over a folder's entries, in the order the
\* iterator yields them: a regular file whose fileTime is before the threshold
\* is removed, and a failing fs::remove makes cleanupOldBackups return an error.
CleanupEntry ==
  /\ cpc = "iter"
  /\ IF Unseen = {}
     THEN /\ cfolder' = cfolder + 1
          /\ cpc' = "open"
          /\ UNCHANGED <<present, cseen, cleanupResult>>
     ELSE \E p \in Unseen, r \in ClockReads, removed \in BOOLEAN :
            IF /\ ArtifactAt(p).kind = "file"
               /\ IsOldBackup(FileTime(now + r[1], now + r[2], artifactTime[p]),
                              threshold)
            THEN IF removed
                 THEN /\ present' = present \ {p}
                      /\ cseen' = cseen \cup {p}
                      /\ UNCHANGED <<cpc, cfolder, cleanupResult>>
                 ELSE /\ cleanupResult' = "error"
                      /\ cpc' = AfterFailedRemove(cpc)
                      /\ UNCHANGED <<present, cseen, cfolder>>
            ELSE /\ cseen' = cseen \cup {p}
                 /\ UNCHANGED <<present, cpc, cfolder, cleanupResult>>
  /\ UNCHANGED <<runVars, daemonVars, retentionDays, artifactTime, threshold,
                 schedVars, mainVars, envVars>>

\* ------------------------------------------------------ Backup::verifyBackup

\* archive_read_next_header on the i-th header of the archive file.
ReadNextHeader(i) ==
  IF i <= arIntact THEN "ARCHIVE_OK"
  ELSE IF arDamaged THEN "ARCHIVE_FATAL" ELSE "ARCHIVE_EOF"

RECURSIVE HeaderLoop(_)
\* while (archive_read_next_header(a, &entry) == ARCHIVE_OK): the status that
\* ends the loop.
HeaderLoop(i) ==
  IF ReadNextHeader(i) = "ARCHIVE_OK" THEN HeaderLoop(i + 1) ELSE ReadNextHeader(i)

\* What ends verifyBackup: the failed open, or the header loop's last status.
VerifyEnd == IF arState = "absent" THEN "open failed" ELSE HeaderLoop(1)

\* verifyBackup's result: an error when the open fails; otherwise success,
\* which is set to true and never changed by the header loop.
VerifyBackupResult(end) == IF end = "open failed" THEN "error" ELSE "true"

\* ---------------------------------------------------------- Backup::execute

\* A test that takes every result of the file backup for a value.
HasValue_Always(fr) == TRUE

\* std::expected's operator bool on what fileStrategy.execute returned.
HasValue(fr) == fr = "ok"

\* if (!fileResult): the file backup's error ends the run.
FileBackupFailed ==
  /\ pc = "fileReturned"
  /\ ~HasValue(fileResult)
  /\ calls' = Notify(calls, "File backup failed")
  /\ result' = "File backup failed"
  /\ pc' = "done"
  /\ UNCHANGED <<daemonMode, type, fullBackup, excludeExtensions,
                 notificationStrategy, transferStrategy, lastBackupFile,
                 gShutdownFlag, now, dbBackupFile, dbResult, totalFiles,
                 counted, arState, arEntries, arIntact, arDamaged,
                 archiveMutex, wpc, widx, wleft, processedFiles, visited,
                 scanSelected, fileResult, verifyResult, verifyEnd, markerPre,
                 markerWrites, sigPhase, transferFailures, daemonVars,
                 cleanVars, schedVars, mainVars, envVars>>

\* Backup::execute going on whatever verifyBackup returned.
VerificationFailed_Never(vr) == FALSE

\* if (!verifyResult || !*verifyResult)
VerificationFailed(vr) == vr # "true"

\* verifyBackup(targetPath) and the check of its result.
VerifyBackup ==
  /\ pc = "fileReturned"
  /\ HasValue(fileResult)
  /\ verifyEnd' = VerifyEnd
  /\ verifyResult' = VerifyBackupResult(VerifyEnd)
  /\ IF VerificationFailed(VerifyBackupResult(VerifyEnd))
     THEN /\ calls' = Notify(Append(calls, "verify"), "Backup verification failed")
          /\ result' = "Backup verification failed"
          /\ pc' = "done"
     ELSE /\ calls' = Append(calls, "verify")
          /\ result' = result
          /\ pc' = "chown"
  /\ UNCHANGED <<daemonMode, type, fullBackup, excludeExtensions,
                 notificationStrategy, transferStrategy, lastBackupFile,
                 gShutdownFlag, now, dbBackupFile, dbResult, totalFiles,
                 counted, arState, arEntries, arIntact, arDamaged,
                 archiveMutex, wpc, widx, wleft, processedFiles, visited,
                 scanSelected, fileResult, markerPre, markerWrites, sigPhase,
                 transferFailures, daemonVars, cleanVars, schedVars, mainVars,
                 envVars>>

\* changeOwnership of the archive and, when there is one, of the database
\* artifact; either may throw, which ends the run with an error.
ChangeOwnership ==
  /\ pc = "chown"
  /\ \E sysOk \in BOOLEAN, dbOk \in BOOLEAN :
       LET attempted ==
             IF sysOk /\ dbBackupFile # ""
             THEN calls \o <<"chown:sys", "chown:db">>
             ELSE Append(calls, "chown:sys")
           failed == ~sysOk \/ (dbBackupFile # "" /\ ~dbOk)
       IN IF failed
          THEN /\ calls' = Notify(attempted, "Failed to change ownership")
               /\ result' = "Failed to change ownership"
               /\ pc' = "done"
          ELSE /\ calls' = attempted
               /\ result' = result
               /\ pc' = "transfer"
  /\ UNCHANGED <<daemonMode, type, fullBackup, excludeExtensions,
                 notificationStrategy, transferStrategy, lastBackupFile,
                 gShutdownFlag, now, dbBackupFile, dbResult, totalFiles,
                 counted, arState, arEntries, arIntact, arDamaged,
                 archiveMutex, wpc, widx, wleft, processedFiles, visited,
                 scanSelected, fileResult, verifyResult, verifyEnd, markerPre,
                 markerWrites, sigPhase, transferFailures, daemonVars,
                 cleanVars, schedVars, mainVars, envVars>>

\* The transfers, made when a transfer strategy is configured: of the archive
\* and, when there is one, of the database artifact; a failure is logged and
\* notified, and execute goes on to the cleanup.
Transfer ==
  /\ pc = "transfer"
  /\ IF transferStrategy
     THEN \E sysOk \in BOOLEAN, dbOk \in BOOLEAN :
            LET c1 == Append(calls, "transfer:sys")
                c2 == IF sysOk THEN c1 ELSE Notify(c1, "File transfer failed")
                c3 == IF dbBackupFile # "" THEN Append(c2, "transfer:db") ELSE c2
                c4 == IF dbBackupFile # "" /\ ~dbOk
                      THEN Notify(c3, "Database transfer failed") ELSE c3
            IN /\ calls' = c4
               /\ transferFailures' =
                    (IF sysOk THEN {} ELSE {"sys"}) \cup
                    (IF dbBackupFile # "" /\ ~dbOk THEN {"db"} ELSE {})
     ELSE /\ calls' = calls
          /\ transferFailures' = transferFailures
  /\ pc' = "cleanup"
  /\ UNCHANGED <<daemonMode, type, fullBackup, excludeExtensions,
                 notificationStrategy, transferStrategy, lastBackupFile,
                 gShutdownFlag, now, dbBackupFile, dbResult, totalFiles,
                 counted, arState, arEntries, arIntact, arDamaged,
                 archiveMutex, wpc, widx, wleft, processedFiles, visited,
                 scanSelected, fileResult, verifyResult, verifyEnd, result,
                 markerPre, markerWrites, sigPhase, daemonVars, cleanVars,
                 schedVars, mainVars, envVars>>

\* The return of cleanupOldBackups into Backup::execute: an error is logged
\* and notified, then the success message is sent and execute returns
\* success; an exception cleanupOldBackups let out leaves execute as well.
Cleanup ==
  /\ pc = "cleanup"
  /\ cpc = "returned"
  /\ IF cleanupResult = "threw"
     THEN /\ result' = Threw
          /\ calls' = calls
     ELSE /\ result' = "ok"
          /\ calls' = Notify(IF cleanupResult = "ok" THEN calls
                             ELSE Notify(calls, "Cleanup failed"),
                             "Backup completed")
  /\ pc' = "done"
  /\ UNCHANGED <<daemonMode, type, fullBackup, excludeExtensions,
                 notificationStrategy, transferStrategy, lastBackupFile,
                 gShutdownFlag, now, dbBackupFile, dbResult, totalFiles,
                 counted, arState, arEntries, arIntact, arDamaged,
                 archiveMutex, wpc, widx, wleft, processedFiles, visited,
                 scanSelected, fileResult, verifyResult, verifyEnd, markerPre,
                 markerWrites, sigPhase, transferFailures, daemonVars,
                 cleanVars, schedVars, mainVars, envVars>>

\* ------------------------------------------------------------ signalHandler

\* When a signal arrives: before TarGzFileBackupStrategy::execute is called,
\* in it up to its check of the flag after the join, or after that check.
SignalPhase(at) ==
  IF at \in {"start", "db"} THEN "before"
  ELSE IF at \in {"count", "open", "join"} THEN "mid" ELSE "late"

\* SIGINT or SIGTERM while the run goes on: gShutdownFlag = 1.  The handler is
\* installed by runDaemon only, so only a run the daemon triggered sees the flag.
Signal ==
  /\ daemonMode
  /\ ~gShutdownFlag
  /\ pc \in {"start", "db", "count", "open", "join", "close", "marker"}
  /\ gShutdownFlag' = TRUE
  /\ sigPhase' = SignalPhase(pc)
  /\ UNCHANGED <<daemonMode, type, fullBackup, excludeExtensions,
                 notificationStrategy, transferStrategy, lastBackupFile, now,
                 pc, dbBackupFile, dbResult, totalFiles, counted, arState,
                 arEntries, arIntact, arDamaged, archiveMutex, wpc, widx,
                 wleft, processedFiles, visited, scanSelected, fileResult,
                 verifyResult, verifyEnd, result, calls, markerPre,
                 markerWrites, transferFailures, daemonVars, cleanVars,
                 schedVars, mainVars, envVars>>

\* ------------------------------------------------------------ specification

\* A run starts with the flag clear, no archive at the output path and the
\* configuration and marker file it is given; the system-backup folder holds
\* one archive of long ago.  The daemon triggers runs with
\* the default fullBackup = false.
Init ==
  /\ MainOff
  /\ EnvOff
  /\ daemonMode \in BOOLEAN
  /\ type \in TypeChoices
  /\ fullBackup \in (IF daemonMode THEN {FALSE} ELSE BOOLEAN)
  /\ excludeExtensions \in ExcludeChoices
  /\ notificationStrategy \in BOOLEAN
  /\ transferStrategy \in BOOLEAN
  /\ lastBackupFile \in MarkerChoices
  /\ markerPre = lastBackupFile
  /\ gShutdownFlag = FALSE
  /\ now = StartSec * TicksPerSec
  /\ pc = "start"
  /\ dbBackupFile = ""
  /\ dbResult = "none"
  /\ totalFiles = 0
  /\ counted = {}
  /\ arState = "absent"
  /\ arEntries = <<>>
  /\ arIntact = 0
  /\ arDamaged = FALSE
  /\ archiveMutex = 0
  /\ wpc = [w \in Workers |-> "idle"]
  /\ widx = [w \in Workers |-> 1]
  /\ wleft = [w \in Workers |-> 0]
  /\ processedFiles = 0
  /\ visited = {}
  /\ scanSelected = {}
  /\ fileResult = "none"
  /\ verifyResult = "none"
  /\ verifyEnd = "none"
  /\ result = "none"
  /\ calls = <<>>
  /\ markerWrites = 0
  /\ sigPhase = "none"
  /\ transferFailures = {}
  /\ dpc = "off"
  /\ scheduleTime = 0
  /\ nextBackup = 0
  /\ remaining = 0
  /\ sleptToward = {}
  /\ runLog = {}
  /\ computations = 0
  /\ retentionDays = 1
  /\ artifactTime = [p \in {"sys/1.tar.gz"} |-> 0]
  /\ present = {"sys/1.tar.gz"}
  /\ cpc = "off"
  /\ cfolder = 1
  /\ cseen = {}
  /\ threshold = 0
  /\ cleanupResult = "none"
  /\ scheduleType = "daily"
  /\ scheduleDayOfWeek = "monday"
  /\ scheduleDayOfMonth = 1
  /\ spc = "off"

Next ==
  \/ CheckType
  \/ DbBackup
  \/ CountFiles
  \/ OpenArchive
  \/ JoinThreads
  \/ CloseArchive
  \/ WriteMarker
  \/ \E w \in Workers : WorkerScan(w)
  \/ \E w \in Workers : WorkerLock(w)
  \/ \E w \in Workers : WorkerHeader(w)
  \/ \E w \in Workers : WorkerWriteHeader(w)
  \/ \E w \in Workers : WorkerCopy(w)
  \/ \E w \in Workers : WorkerAfter(w)
  \/ FileBackupFailed
  \/ VerifyBackup
  \/ ChangeOwnership
  \/ Transfer
  \/ CleanupBegin
  \/ CleanupOpenFolder
  \/ CleanupEntry
  \/ Cleanup
  \/ Signal

Spec == Init /\ [][Next]_vars

\* A run of the daily type with nothing excluded, no marker file yet, and
\* neither notification nor transfer.
InitFair ==
  /\ Init
  /\ type = "daily"
  /\ excludeExtensions = {}
  /\ ~notificationStrategy
  /\ ~transferStrategy
  /\ ~lastBackupFile.exists

\* That run with its threads scheduled: a step that can be taken is taken.
SpecFair == InitFair /\ [][Next]_vars /\ WF_vars(Next)

\* ------------------------------------------------------------ the calendar

\* The calendar is the civil one without leap years and without daylight
\* saving; a day is DaySeconds seconds, and config.scheduleTime is held as the
\* second of the day it names (what hour, minute and second add up to).

\* system_clock::to_time_t: the whole seconds of a time point.
ToTimeT(t) == t \div TicksPerSec

\* system_clock::from_time_t.
FromTimeT(s) == s * TicksPerSec

\* The lengths of the months tm_mon = 0..11.
MonthDays == <<31, 28, 31, 30, 31, 30, 31, 31, 30, 31, 30, 31>>

RECURSIVE DaysBeforeMonth(_)
\* The days of a year before its month tm_mon = m.
DaysBeforeMonth(m) == IF m = 0 THEN 0 ELSE MonthDays[m] + DaysBeforeMonth(m - 1)

YearDays == DaysBeforeMonth(12)

\* std::localtime: the broken-down time of a time_t.  Day 0 is the first of
\* January of year 0, a Thursday (tm_wday = 4).
LocalTime(s) ==
  LET day  == s \div DaySeconds
      yday == day % YearDays
      mon  == CHOOSE m \in 0..11 :
                DaysBeforeMonth(m) <= yday /\ yday < DaysBeforeMonth(m + 1)
  IN [year |-> day \div YearDays,
      mon  |-> mon,
      mday |-> yday - DaysBeforeMonth(mon) + 1,
      wday |-> (day + 4) % 7,
      sec  |-> s % DaySeconds]

\* std::mktime: the time_t of a broken-down time, a day of the month beyond
\* the month's length carrying into the following months.
MkTime(tm) ==
  (tm.year * YearDays + DaysBeforeMonth(tm.mon) + tm.mday - 1) * DaySeconds + tm.sec

\* ------------------------------------------------ Backup::getNextBackupTime

\* The check of the parsed time of day: hour, minute and second in range.
ValidTime(s) == s \in 0..(DaySeconds - 1)

\* The day names the weekly schedule knows, with their tm_wday.
dayMap ==
  [monday |-> 1, tuesday |-> 2, wednesday |-> 3, thursday |-> 4, friday |-> 5,
   saturday |-> 6, sunday |-> 0]

\* The cases in which getNextBackupTime throws std::runtime_error.
getNextBackupTimeThrows ==
  \/ ~ValidTime(scheduleTime)
  \/ scheduleType = "weekly" /\ scheduleDayOfWeek \notin DOMAIN dayMap
  \/ scheduleType = "monthly" /\ (scheduleDayOfMonth < 1 \/ scheduleDayOfMonth > 31)
  \/ scheduleType \notin {"daily", "weekly", "monthly"}

\* The roll-over test with a strict comparison.
NextTimePassed_Strict(nextTime, t) == nextTime < t

\* nextTime <= now
NextTimePassed(nextTime, t) == nextTime <= t

\* The weekday delta taken over six days instead of seven.
DaysToAdd_SixDays(targetDay, currentDay) == (targetDay - currentDay + 6) % 7

\* int daysToAdd = (targetDay - currentDay + 7) % 7
DaysToAdd(targetDay, currentDay) == (targetDay - currentDay + 7) % 7

\* What getNextBackupTime returns at time t (in ticks) when it does not throw.
getNextBackupTime(t) ==
  LET tmNow    == LocalTime(ToTimeT(t))
      tmNext   == [tmNow EXCEPT !.sec = scheduleTime]
      nextTime == FromTimeT(MkTime(tmNext))
  IN CASE scheduleType = "daily" ->
            IF NextTimePassed(nextTime, t)
            THEN FromTimeT(MkTime([tmNext EXCEPT !.mday = @ + 1]))
            ELSE nextTime
       [] scheduleType = "weekly" ->
            LET delta     == DaysToAdd(dayMap[scheduleDayOfWeek], tmNow.wday)
                daysToAdd == IF delta = 0 /\ NextTimePassed(nextTime, t)
                             THEN 7 ELSE delta
            IN FromTimeT(MkTime([tmNext EXCEPT !.mday = @ + daysToAdd]))
       [] scheduleType = "monthly" ->
            IF scheduleDayOfMonth <= tmNow.mday /\ NextTimePassed(nextTime, t)
            THEN LET wraps == tmNext.mon + 1 > 11
                 IN FromTimeT(MkTime([tmNext EXCEPT
                                        !.mon  = IF wraps THEN 0 ELSE @ + 1,
                                        !.year = IF wraps THEN @ + 1 ELSE @,
                                        !.mday = scheduleDayOfMonth]))
            ELSE nextTime
       [] OTHER -> nextTime

\* duration_cast<seconds>(nextBackup - now): truncation toward zero.
SleepSeconds(next, t) ==
  IF next >= t THEN (next - t) \div TicksPerSec ELSE 0 - ((t - next) \div TicksPerSec)

\* --------------------------------------------------------- Backup::runDaemon

\* A branch that sleeps whenever the flag is clear, whatever the duration.
SleepsFirst_AnyDuration(seconds, flag) == ~flag

\* if (sleepDuration.count() > 0 && !gShutdownFlag)
SleepsFirst(seconds, flag) == seconds > 0 /\ ~flag

\* The run branch taken whatever the flag.
RunsAtOnce_IgnoresFlag(flag) == TRUE

\* else if (!gShutdownFlag)
RunsAtOnce(flag) == ~flag

\* The sleep loop going on whatever the flag.
KeepsSleeping_IgnoresFlag(rem, flag) == rem > 0

\* while (remaining > 0 && !gShutdownFlag)
KeepsSleeping(rem, flag) == rem > 0 /\ ~flag

\* The head of a loop iteration: the loop ends when the flag is set; else the
\* next run time is computed, which may throw, the clock is read again and
\* the sleep duration is taken in whole seconds.
DaemonLoop ==
  /\ dpc = "loop"
  /\ IF gShutdownFlag
     THEN /\ dpc' = "exited"
          /\ UNCHANGED <<now, nextBackup, remaining, computations>>
     ELSE /\ now < MaxDays * DayTicks
          /\ computations < MaxComputations
          /\ computations' = computations + 1
          /\ IF getNextBackupTimeThrows
             THEN /\ dpc' = "catch"
                  /\ UNCHANGED <<now, nextBackup, remaining>>
             ELSE \E d \in 0..MaxJitter :
                    /\ nextBackup' = getNextBackupTime(now)
                    /\ now' = now + d
                    /\ remaining' = SleepSeconds(getNextBackupTime(now), now + d)
                    /\ dpc' = "branch"
  /\ UNCHANGED <<daemonMode, type, fullBackup, excludeExtensions,
                 notificationStrategy, transferStrategy, lastBackupFile,
                 gShutdownFlag, pc, dbBackupFile, dbResult, totalFiles,
                 counted, arState, arEntries, arIntact, arDamaged,
                 archiveMutex, wpc, widx, wleft, processedFiles, visited,
                 scanSelected, fileResult, verifyResult, verifyEnd, result,
                 calls, markerPre, markerWrites, sigPhase, transferFailures,
                 scheduleTime, sleptToward, runLog, cleanVars, schedVars,
                 mainVars, envVars>>

\* The branch on the sleep duration and the flag: sleep toward the run time,
\* trigger the run at once, or leave the loop.
DaemonBranch ==
  /\ dpc = "branch"
  /\ IF SleepsFirst(remaining, gShutdownFlag)
     THEN /\ sleptToward' = sleptToward \cup {nextBackup}
          /\ dpc' = "sleep"
          /\ runLog' = runLog
     ELSE IF RunsAtOnce(gShutdownFlag)
          THEN /\ runLog' = runLog \cup {nextBackup}
               /\ dpc' = "run"
               /\ sleptToward' = sleptToward
          ELSE /\ dpc' = "exited"
               /\ UNCHANGED <<sleptToward, runLog>>
  /\ UNCHANGED <<runVars, scheduleTime, nextBackup, remaining, computations,
                 cleanVars, schedVars, mainVars, envVars>>

\* while (remaining > 0 && !gShutdownFlag): sleep_for(min(remaining, 1) s),
\* which lasts at least a second.
DaemonSleep ==
  /\ dpc = "sleep"
  /\ IF KeepsSleeping(remaining, gShutdownFlag)
     THEN /\ \E over \in 0..MaxJitter : now' = now + TicksPerSec + over
          /\ remaining' = remaining - 1
          /\ dpc' = dpc
     ELSE /\ dpc' = "loop"
          /\ UNCHANGED <<now, remaining>>
  /\ UNCHANGED <<daemonMode, type, fullBackup, excludeExtensions,
                 notificationStrategy, transferStrategy, lastBackupFile,
                 gShutdownFlag, pc, dbBackupFile, dbResult, totalFiles,
                 counted, arState, arEntries, arIntact, arDamaged,
                 archiveMutex, wpc, widx, wleft, processedFiles, visited,
                 scanSelected, fileResult, verifyResult, verifyEnd, result,
                 calls, markerPre, markerWrites, sigPhase, transferFailures,
                 scheduleTime, nextBackup, sleptToward, runLog, computations,
                 cleanVars, schedVars, mainVars, envVars>>

\* execute(config.scheduleType) returns, after some time, with success or an
\* error, either of which is logged and the loop goes on; or an exception
\* leaves it, which the loop catches.
DaemonRun ==
  /\ dpc = "run"
  /\ \E took \in 0..MaxRunTicks : now' = now + took
  /\ \E threw \in BOOLEAN : dpc' = IF threw THEN "catch" ELSE "loop"
  /\ UNCHANGED <<daemonMode, type, fullBackup, excludeExtensions,
                 notificationStrategy, transferStrategy, lastBackupFile,
                 gShutdownFlag, pc, dbBackupFile, dbResult, totalFiles,
                 counted, arState, arEntries, arIntact, arDamaged,
                 archiveMutex, wpc, widx, wleft, processedFiles, visited,
                 scanSelected, fileResult, verifyResult, verifyEnd, result,
                 calls, markerPre, markerWrites, sigPhase, transferFailures,
                 scheduleTime, nextBackup, remaining, sleptToward, runLog,
                 computations, cleanVars, schedVars, mainVars, envVars>>

\* catch (const std::exception&): the error is logged, the loop sleeps the
\* backoff and then leaves when the flag is set, and else goes on.
DaemonCatch ==
  /\ dpc = "catch"
  /\ \E over \in 0..MaxJitter : now' = now + BackoffSeconds * TicksPerSec + over
  /\ dpc' = IF gShutdownFlag THEN "exited" ELSE "loop"
  /\ UNCHANGED <<daemonMode, type, fullBackup, excludeExtensions,
                 notificationStrategy, transferStrategy, lastBackupFile,
                 gShutdownFlag, pc, dbBackupFile, dbResult, totalFiles,
                 counted, arState, arEntries, arIntact, arDamaged,
                 archiveMutex, wpc, widx, wleft, processedFiles, visited,
                 scanSelected, fileResult, verifyResult, verifyEnd, result,
                 calls, markerPre, markerWrites, sigPhase, transferFailures,
                 scheduleTime, nextBackup, remaining, sleptToward, runLog,
                 computations, cleanVars, schedVars, mainVars, envVars>>

\* SIGINT or SIGTERM while the daemon runs.
DaemonSignal ==
  /\ dpc \in {"loop", "branch", "sleep", "run", "catch"}
  /\ ~gShutdownFlag
  /\ gShutdownFlag' = TRUE
  /\ UNCHANGED <<daemonMode, type, fullBackup, excludeExtensions,
                 notificationStrategy, transferStrategy, lastBackupFile, now,
                 pc, dbBackupFile, dbResult, totalFiles, counted, arState,
                 arEntries, arIntact, arDamaged, archiveMutex, wpc, widx,
                 wleft, processedFiles, visited, scanSelected, fileResult,
                 verifyResult, verifyEnd, result, calls, markerPre,
                 markerWrites, sigPhase, transferFailures, daemonVars,
                 cleanVars, schedVars, mainVars, envVars>>

\* The daemon starts at some time of the first day, with a daily schedule or
\* one of an unknown type, a time of day that may be invalid, and no run in
\* progress.
InitDaemon ==
  /\ MainOff
  /\ EnvOff
  /\ daemonMode = TRUE
  /\ fullBackup = FALSE
  /\ excludeExtensions = {}
  /\ notificationStrategy = FALSE
  /\ transferStrategy = FALSE
  /\ lastBackupFile = [exists |-> FALSE, text |-> <<>>]
  /\ markerPre = lastBackupFile
  /\ gShutdownFlag = FALSE
  /\ now \in 0..(DayTicks - 1)
  /\ pc = "idle"
  /\ dbBackupFile = ""
  /\ dbResult = "none"
  /\ totalFiles = 0
  /\ counted = {}
  /\ arState = "absent"
  /\ arEntries = <<>>
  /\ arIntact = 0
  /\ arDamaged = FALSE
  /\ archiveMutex = 0
  /\ wpc = [w \in Workers |-> "idle"]
  /\ widx = [w \in Workers |-> 1]
  /\ wleft = [w \in Workers |-> 0]
  /\ processedFiles = 0
  /\ visited = {}
  /\ scanSelected = {}
  /\ fileResult = "none"
  /\ verifyResult = "none"
  /\ verifyEnd = "none"
  /\ result = "none"
  /\ calls = <<>>
  /\ markerWrites = 0
  /\ sigPhase = "none"
  /\ transferFailures = {}
  /\ dpc = "loop"
  /\ scheduleTime \in -1..(DaySeconds - 1)
  /\ nextBackup = -1
  /\ remaining = 0
  /\ sleptToward = {}
  /\ runLog = {}
  /\ computations = 0
  /\ retentionDays = 1
  /\ artifactTime = <<>>
  /\ present = {}
  /\ cpc = "off"
  /\ cfolder = 1
  /\ cseen = {}
  /\ threshold = 0
  /\ cleanupResult = "none"
  /\ scheduleType \in {"daily", "hourly"}
  /\ type = scheduleType
  /\ scheduleDayOfWeek = "monday"
  /\ scheduleDayOfMonth = 1
  /\ spc = "off"

NextDaemon ==
  \/ DaemonLoop
  \/ DaemonBranch
  \/ DaemonSleep
  \/ DaemonRun
  \/ DaemonCatch
  \/ DaemonSignal

SpecDaemon == InitDaemon /\ [][NextDaemon]_vars

\* The daemon's own steps, which go on as long as the process is scheduled.
DaemonStep == DaemonLoop \/ DaemonBranch \/ DaemonSleep \/ DaemonRun \/ DaemonCatch

SpecDaemonFair == SpecDaemon /\ WF_vars(DaemonStep)

\* ------------------------------------- cleanupOldBackups over any folders

\* Last-write times around the threshold of a retention of the given days,
\* and the epoch.
TimesNear(days) ==
  {0} \cup ((Threshold(StartSec * TicksPerSec, days) - 1) ..
            (Threshold(StartSec * TicksPerSec, days) + 1))

\* Backup::execute about to call cleanupOldBackups, after a verified backup:
\* the folders hold entries of any age around the threshold.
InitCleanup ==
  /\ MainOff
  /\ EnvOff
  /\ daemonMode = FALSE
  /\ type = "daily"
  /\ fullBackup = FALSE
  /\ excludeExtensions = {}
  /\ notificationStrategy \in BOOLEAN
  /\ transferStrategy = FALSE
  /\ lastBackupFile = [exists |-> FALSE, text |-> <<>>]
  /\ markerPre = lastBackupFile
  /\ gShutdownFlag = FALSE
  /\ now = StartSec * TicksPerSec
  /\ pc = "cleanup"
  /\ dbBackupFile = ""
  /\ dbResult = "none"
  /\ totalFiles = 0
  /\ counted = {}
  /\ arState = "absent"
  /\ arEntries = <<>>
  /\ arIntact = 0
  /\ arDamaged = FALSE
  /\ archiveMutex = 0
  /\ wpc = [w \in Workers |-> "idle"]
  /\ widx = [w \in Workers |-> 1]
  /\ wleft = [w \in Workers |-> 0]
  /\ processedFiles = 0
  /\ visited = {}
  /\ scanSelected = {}
  /\ fileResult = "ok"
  /\ verifyResult = "true"
  /\ verifyEnd = "ARCHIVE_EOF"
  /\ result = "none"
  /\ calls = <<>>
  /\ markerWrites = 0
  /\ sigPhase = "none"
  /\ transferFailures = {}
  /\ dpc = "off"
  /\ scheduleTime = 0
  /\ nextBackup = 0
  /\ remaining = 0
  /\ sleptToward = {}
  /\ runLog = {}
  /\ computations = 0
  /\ retentionDays \in 1..MaxRetentionDays
  /\ artifactTime \in [ArtifactPaths -> TimesNear(retentionDays)]
  /\ present = ArtifactPaths
  /\ cpc = "off"
  /\ cfolder = 1
  /\ cseen = {}
  /\ threshold = 0
  /\ cleanupResult = "none"
  /\ scheduleType = "daily"
  /\ scheduleDayOfWeek = "monday"
  /\ scheduleDayOfMonth = 1
  /\ spc = "off"

NextCleanup ==
  \/ CleanupBegin
  \/ CleanupOpenFolder
  \/ CleanupEntry
  \/ Cleanup

SpecCleanup == InitCleanup /\ [][NextCleanup]_vars

\* --------------------------------- getNextBackupTime over any schedule

\* The days schedules are computed on: from the first of December of year 0
\* into the March of year 1.
SchedDays == (YearDays - 31)..(YearDays + MaxSchedDays)

\* The values of config.scheduleDayOfWeek tried: the names of dayMap and one
\* that is not among them.
DayOfWeekChoices == DOMAIN dayMap \cup {"Monday"}

\* The values of config.scheduleDayOfMonth tried.
DayOfMonthChoices == {0, 1, 15, 28, 29, 30, 31, 32}

\* A call of getNextBackupTime at any time of the days above, for any schedule
\* of the configuration.
InitSchedule ==
  /\ MainOff
  /\ EnvOff
  /\ daemonMode = TRUE
  /\ type = "daily"
  /\ fullBackup = FALSE
  /\ excludeExtensions = {}
  /\ notificationStrategy = FALSE
  /\ transferStrategy = FALSE
  /\ lastBackupFile = [exists |-> FALSE, text |-> <<>>]
  /\ markerPre = lastBackupFile
  /\ gShutdownFlag = FALSE
  /\ now \in {d * DayTicks + k : d \in SchedDays, k \in 0..(DayTicks - 1)}
  /\ pc = "idle"
  /\ dbBackupFile = ""
  /\ dbResult = "none"
  /\ totalFiles = 0
  /\ counted = {}
  /\ arState = "absent"
  /\ arEntries = <<>>
  /\ arIntact = 0
  /\ arDamaged = FALSE
  /\ archiveMutex = 0
  /\ wpc = [w \in Workers |-> "idle"]
  /\ widx = [w \in Workers |-> 1]
  /\ wleft = [w \in Workers |-> 0]
  /\ processedFiles = 0
  /\ visited = {}
  /\ scanSelected = {}
  /\ fileResult = "none"
  /\ verifyResult = "none"
  /\ verifyEnd = "none"
  /\ result = "none"
  /\ calls = <<>>
  /\ markerWrites = 0
  /\ sigPhase = "none"
  /\ transferFailures = {}
  /\ dpc = "off"
  /\ scheduleTime \in -1..DaySeconds
  /\ nextBackup = -1
  /\ remaining = 0
  /\ sleptToward = {}
  /\ runLog = {}
  /\ computations = 0
  /\ retentionDays = 1
  /\ artifactTime = <<>>
  /\ present = {}
  /\ cpc = "off"
  /\ cfolder = 1
  /\ cseen = {}
  /\ threshold = 0
  /\ cleanupResult = "none"
  /\ \/ /\ scheduleType \in {"daily", "yearly"}
        /\ scheduleDayOfWeek = "monday"
        /\ scheduleDayOfMonth = 1
     \/ /\ scheduleType = "weekly"
        /\ scheduleDayOfWeek \in DayOfWeekChoices
        /\ scheduleDayOfMonth = 1
     \/ /\ scheduleType = "monthly"
        /\ scheduleDayOfWeek = "monday"
        /\ scheduleDayOfMonth \in DayOfMonthChoices
  /\ spc = "call"

\* The call: the next run time is returned, or an exception is thrown.
CallGetNextBackupTime ==
  /\ spc = "call"
  /\ IF getNextBackupTimeThrows
     THEN /\ spc' = "threw"
          /\ nextBackup' = nextBackup
     ELSE /\ spc' = "returned"
          /\ nextBackup' = getNextBackupTime(now)
  /\ UNCHANGED <<runVars, dpc, scheduleTime, remaining, sleptToward, runLog,
                 computations, cleanVars, scheduleType, scheduleDayOfWeek,
                 scheduleDayOfMonth, mainVars, envVars>>

NextSchedule == CallGetNextBackupTime

SpecSchedule == InitSchedule /\ [][NextSchedule]_vars

\* ---------------------------------------- runDaemon with the runs it triggers

\* The run branch calls execute(config.scheduleType): a run of Backup::execute
\* begins, with the marker file and the backup folders as they are.
DaemonExecute ==
  /\ dpc = "run"
  /\ dpc' = "running"
  /\ pc' = "start"
  /\ markerPre' = lastBackupFile
  /\ sigPhase' = IF gShutdownFlag THEN "before" ELSE "none"
  /\ dbBackupFile' = ""
  /\ dbResult' = "none"
  /\ totalFiles' = 0
  /\ counted' = {}
  /\ arState' = "absent"
  /\ arEntries' = <<>>
  /\ arIntact' = 0
  /\ arDamaged' = FALSE
  /\ archiveMutex' = 0
  /\ wpc' = [w \in Workers |-> "idle"]
  /\ widx' = [w \in Workers |-> 1]
  /\ wleft' = [w \in Workers |-> 0]
  /\ processedFiles' = 0
  /\ visited' = {}
  /\ scanSelected' = {}
  /\ fileResult' = "none"
  /\ verifyResult' = "none"
  /\ verifyEnd' = "none"
  /\ result' = "none"
  /\ calls' = <<>>
  /\ markerWrites' = 0
  /\ cpc' = "off"
  /\ cfolder' = 1
  /\ cseen' = {}
  /\ cleanupResult' = "none"
  /\ transferFailures' = {}
  /\ UNCHANGED <<daemonMode, type, fullBackup, excludeExtensions,
                 notificationStrategy, transferStrategy, lastBackupFile,
                 gShutdownFlag, now, scheduleTime, nextBackup, remaining,
                 sleptToward, runLog, computations, retentionDays,
                 artifactTime, present, threshold, schedVars, mainVars,
                 envVars>>

\* execute has returned, after some time: a result, success or error, is
\* logged and the loop goes on; an exception is caught by the loop.
DaemonExecuteReturned ==
  /\ dpc = "running"
  /\ pc = "done"
  /\ \E took \in 0..MaxRunTicks : now' = now + took
  /\ dpc' = IF result = Threw THEN "catch" ELSE "loop"
  /\ UNCHANGED <<daemonMode, type, fullBackup, excludeExtensions,
                 notificationStrategy, transferStrategy, lastBackupFile,
                 gShutdownFlag, pc, dbBackupFile, dbResult, totalFiles,
                 counted, arState, arEntries, arIntact, arDamaged,
                 archiveMutex, wpc, widx, wleft, processedFiles, visited,
                 scanSelected, fileResult, verifyResult, verifyEnd, result,
                 calls, markerPre, markerWrites, sigPhase, transferFailures,
                 scheduleTime, nextBackup, remaining, sleptToward, runLog,
                 computations, cleanVars, schedVars, mainVars, envVars>>

\* SIGINT or SIGTERM while a run goes on past the steps that read the flag.
DaemonSignalLate ==
  /\ dpc = "running"
  /\ pc \notin {"start", "db", "count", "open", "join", "close", "marker"}
  /\ ~gShutdownFlag
  /\ gShutdownFlag' = TRUE
  /\ UNCHANGED <<daemonMode, type, fullBackup, excludeExtensions,
                 notificationStrategy, transferStrategy, lastBackupFile, now,
                 pc, dbBackupFile, dbResult, totalFiles, counted, arState,
                 arEntries, arIntact, arDamaged, archiveMutex, wpc, widx,
                 wleft, processedFiles, visited, scanSelected, fileResult,
                 verifyResult, verifyEnd, result, calls, markerPre,
                 markerWrites, sigPhase, transferFailures, daemonVars,
                 cleanVars, schedVars, mainVars, envVars>>

\* The daemon starts half a second before the time of its daily schedule, so
\* that its first iteration triggers a run; the system-backup folder holds one
\* archive of long ago.
InitDaemonRuns ==
  /\ MainOff
  /\ EnvOff
  /\ scheduleTime = 1
  /\ daemonMode = TRUE
  /\ fullBackup = FALSE
  /\ excludeExtensions = {}
  /\ notificationStrategy = FALSE
  /\ transferStrategy = FALSE
  /\ lastBackupFile = [exists |-> FALSE, text |-> <<>>]
  /\ markerPre = lastBackupFile
  /\ gShutdownFlag = FALSE
  /\ now = scheduleTime * TicksPerSec - 1
  /\ pc = "idle"
  /\ dbBackupFile = ""
  /\ dbResult = "none"
  /\ totalFiles = 0
  /\ counted = {}
  /\ arState = "absent"
  /\ arEntries = <<>>
  /\ arIntact = 0
  /\ arDamaged = FALSE
  /\ archiveMutex = 0
  /\ wpc = [w \in Workers |-> "idle"]
  /\ widx = [w \in Workers |-> 1]
  /\ wleft = [w \in Workers |-> 0]
  /\ processedFiles = 0
  /\ visited = {}
  /\ scanSelected = {}
  /\ fileResult = "none"
  /\ verifyResult = "none"
  /\ verifyEnd = "none"
  /\ result = "none"
  /\ calls = <<>>
  /\ markerWrites = 0
  /\ sigPhase = "none"
  /\ transferFailures = {}
  /\ dpc = "loop"
  /\ nextBackup = -1
  /\ remaining = 0
  /\ sleptToward = {}
  /\ runLog = {}
  /\ computations = 0
  /\ retentionDays = 1
  /\ artifactTime = [p \in {"sys/1.tar.gz"} |-> 0 - DayTicks]
  /\ present = {"sys/1.tar.gz"}
  /\ cpc = "off"
  /\ cfolder = 1
  /\ cseen = {}
  /\ threshold = 0
  /\ cleanupResult = "none"
  /\ scheduleType = "daily"
  /\ type = scheduleType
  /\ scheduleDayOfWeek = "monday"
  /\ scheduleDayOfMonth = 1
  /\ spc = "off"


NextDaemonRuns ==
  \/ DaemonLoop
  \/ DaemonBranch
  \/ DaemonSleep
  \/ DaemonCatch
  \/ DaemonExecute
  \/ DaemonExecuteReturned
  \/ DaemonSignal
  \/ DaemonSignalLate
  \/ Next

SpecDaemonRuns == InitDaemonRuns /\ [][NextDaemonRuns]_vars

\* --------------------------------------------------------------------- main

\* The backup type main goes on with: the one on the command line, or in
\* daemon mode without one, config.scheduleType.
BackupTypeOf(arg) == IF daemonMode /\ arg = "" THEN scheduleType ELSE arg

\* main up to the mode branch: the configuration is loaded when the daemon is
\* given no type, which may fail; no type at all is a usage error; a one-shot
\* run is started through BackupAPI::startBackup, whose Backup may fail to be
\* constructed.
MainArgs ==
  /\ mpc = "args"
  /\ IF daemonMode /\ argType = "" /\ ~configLoads
     THEN /\ exitCode' = 1
          /\ mpc' = "exit"
          /\ UNCHANGED <<type, pc, result>>
     ELSE IF BackupTypeOf(argType) = ""
     THEN /\ exitCode' = 1
          /\ mpc' = "exit"
          /\ UNCHANGED <<type, pc, result>>
     ELSE IF daemonMode
     THEN /\ mpc' = "daemon"
          /\ UNCHANGED <<exitCode, type, pc, result>>
     ELSE IF ~configLoads
     THEN /\ result' = "Failed to start backup"
          /\ pc' = "done"
          /\ mpc' = "oneshot"
          /\ UNCHANGED <<exitCode, type>>
     ELSE /\ type' = BackupTypeOf(argType)
          /\ pc' = "start"
          /\ mpc' = "oneshot"
          /\ UNCHANGED <<exitCode, result>>
  /\ UNCHANGED <<daemonMode, fullBackup, excludeExtensions,
                 notificationStrategy, transferStrategy, lastBackupFile,
                 gShutdownFlag, now, dbBackupFile, dbResult, totalFiles,
                 counted, arState, arEntries, arIntact, arDamaged,
                 archiveMutex, wpc, widx, wleft, processedFiles, visited,
                 scanSelected, fileResult, verifyResult, verifyEnd, calls,
                 markerPre, markerWrites, sigPhase, transferFailures,
                 daemonVars, cleanVars, schedVars, argType, configLoads,
                 logFileOpens, envVars>>

\* The one-shot branch once startBackup has returned: 1 on an error, which an
\* exception out of execute is turned into, else 0.
MainOneShotReturned ==
  /\ mpc = "oneshot"
  /\ pc = "done"
  /\ exitCode' = IF result = "ok" THEN 0 ELSE 1
  /\ mpc' = "exit"
  /\ UNCHANGED <<runVars, daemonVars, cleanVars, schedVars, argType,
                 configLoads, logFileOpens, envVars>>

\* The daemon branch: Backup is constructed, which may throw, and runDaemon
\* is called, which returns at once when the log file cannot be opened and
\* else enters its loop.
MainStartDaemon ==
  /\ mpc = "daemon"
  /\ dpc = "off"
  /\ IF ~configLoads
     THEN /\ exitCode' = 1
          /\ mpc' = "exit"
          /\ dpc' = dpc
     ELSE IF ~logFileOpens
     THEN /\ exitCode' = 0
          /\ mpc' = "exit"
          /\ dpc' = dpc
     ELSE /\ dpc' = "loop"
          /\ UNCHANGED <<mpc, exitCode>>
  /\ UNCHANGED <<runVars, scheduleTime, nextBackup, remaining, sleptToward,
                 runLog, computations, cleanVars, schedVars, argType,
                 configLoads, logFileOpens, envVars>>

\* runDaemon returns after its loop has ended.
MainDaemonReturned ==
  /\ mpc = "daemon"
  /\ dpc = "exited"
  /\ exitCode' = 0
  /\ mpc' = "exit"
  /\ UNCHANGED <<runVars, daemonVars, cleanVars, schedVars, argType,
                 configLoads, logFileOpens, envVars>>

\* The process starts in daemon mode or for one run, with or without a type
\* on the command line, and a configuration and a log file that may or may
\* not open.  The daemon starts at some time of the first day with a valid
\* or invalid schedule; the one-shot run is full or incremental over a marker
\* file of any kind.
InitMain ==
  /\ EnvOff
  /\ mpc = "args"
  /\ exitCode = -1
  /\ argType \in {"", "daily", "weekly"}
  /\ configLoads \in BOOLEAN
  /\ logFileOpens \in BOOLEAN
  /\ daemonMode \in BOOLEAN
  /\ type = ""
  /\ fullBackup \in (IF daemonMode THEN {FALSE} ELSE BOOLEAN)
  /\ excludeExtensions = {}
  /\ notificationStrategy = FALSE
  /\ transferStrategy \in (IF daemonMode THEN {FALSE} ELSE BOOLEAN)
  /\ lastBackupFile = [exists |-> FALSE, text |-> <<>>]
  /\ markerPre = lastBackupFile
  /\ gShutdownFlag = FALSE
  /\ now \in (IF daemonMode THEN 0..(DayTicks - 1) ELSE {StartSec * TicksPerSec})
  /\ pc = "idle"
  /\ dbBackupFile = ""
  /\ dbResult = "none"
  /\ totalFiles = 0
  /\ counted = {}
  /\ arState = "absent"
  /\ arEntries = <<>>
  /\ arIntact = 0
  /\ arDamaged = FALSE
  /\ archiveMutex = 0
  /\ wpc = [w \in Workers |-> "idle"]
  /\ widx = [w \in Workers |-> 1]
  /\ wleft = [w \in Workers |-> 0]
  /\ processedFiles = 0
  /\ visited = {}
  /\ scanSelected = {}
  /\ fileResult = "none"
  /\ verifyResult = "none"
  /\ verifyEnd = "none"
  /\ result = "none"
  /\ calls = <<>>
  /\ markerWrites = 0
  /\ sigPhase = "none"
  /\ transferFailures = {}
  /\ dpc = "off"
  /\ scheduleTime \in (IF daemonMode THEN -1..(DaySeconds - 1) ELSE {0})
  /\ nextBackup = -1
  /\ remaining = 0
  /\ sleptToward = {}
  /\ runLog = {}
  /\ computations = 0
  /\ retentionDays = 1
  /\ artifactTime = [p \in {"sys/1.tar.gz"} |-> 0]
  /\ present = {"sys/1.tar.gz"}
  /\ cpc = "off"
  /\ cfolder = 1
  /\ cseen = {}
  /\ threshold = 0
  /\ cleanupResult = "none"
  /\ scheduleType \in (IF daemonMode THEN {"daily", "hourly"} ELSE {"daily"})
  /\ scheduleDayOfWeek = "monday"
  /\ scheduleDayOfMonth = 1
  /\ spc = "off"

\* main, the one run of the one-shot mode step by step, and the daemon loop
\* with each run it triggers as one step.
NextMain ==
  \/ MainArgs
  \/ MainOneShotReturned
  \/ MainStartDaemon
  \/ MainDaemonReturned
  \/ CheckType
  \/ DbBackup
  \/ CountFiles
  \/ OpenArchive
  \/ JoinThreads
  \/ CloseArchive
  \/ WriteMarker
  \/ \E w \in Workers : WorkerScan(w)
  \/ \E w \in Workers : WorkerLock(w)
  \/ \E w \in Workers : WorkerHeader(w)
  \/ \E w \in Workers : WorkerWriteHeader(w)
  \/ \E w \in Workers : WorkerCopy(w)
  \/ \E w \in Workers : WorkerAfter(w)
  \/ FileBackupFailed
  \/ VerifyBackup
  \/ ChangeOwnership
  \/ Transfer
  \/ CleanupBegin
  \/ CleanupOpenFolder
  \/ CleanupEntry
  \/ Cleanup
  \/ DaemonLoop
  \/ DaemonBranch
  \/ DaemonSleep
  \/ DaemonRun
  \/ DaemonCatch
  \/ DaemonSignal

SpecMain == InitMain /\ [][NextMain]_vars

\* ------------------------------------------------------- two runs in a row

\* The clock goes on while a run goes on and between the runs.
ClockAdvance ==
  /\ now < StartSec * TicksPerSec + MaxElapsed
  /\ now' = now + 1
  /\ UNCHANGED <<daemonMode, type, fullBackup, excludeExtensions,
                 notificationStrategy, transferStrategy, lastBackupFile,
                 gShutdownFlag, pc, dbBackupFile, dbResult, totalFiles,
                 counted, arState, arEntries, arIntact, arDamaged,
                 archiveMutex, wpc, widx, wleft, processedFiles, visited,
                 scanSelected, fileResult, verifyResult, verifyEnd, result,
                 calls, markerPre, markerWrites, sigPhase, transferFailures,
                 daemonVars, cleanVars, schedVars, mainVars, envVars>>

\* Another program writes source file p: its last-write time becomes the
\* present.  The write is remembered when the first run has examined the file
\* and has not yet written the marker.
ModifyFile(p) ==
  /\ \A q \in DOMAIN touched : touched[q] < 0
  /\ pc # "done" \/ runNo = 1
  /\ touched' = [touched EXCEPT ![p] = now]
  /\ lateTouched' = IF runNo = 1 /\ p \in visited /\ pc \in {"join", "close", "marker"}
                    THEN lateTouched \cup {p} ELSE lateTouched
  /\ runNo' = runNo
  /\ UNCHANGED <<runVars, daemonVars, cleanVars, schedVars, mainVars,
                 dirState, unreadable>>

\* After a run whose file backup wrote the marker, the next run begins: an
\* incremental one, over the marker file as the first run left it.
StartNextRun ==
  /\ runNo = 1
  /\ pc = "done"
  /\ markerWrites = 1
  /\ runNo' = 2
  /\ fullBackup' = FALSE
  /\ pc' = "start"
  /\ markerPre' = lastBackupFile
  /\ dbBackupFile' = ""
  /\ dbResult' = "none"
  /\ totalFiles' = 0
  /\ counted' = {}
  /\ arState' = "absent"
  /\ arEntries' = <<>>
  /\ arIntact' = 0
  /\ arDamaged' = FALSE
  /\ archiveMutex' = 0
  /\ wpc' = [w \in Workers |-> "idle"]
  /\ widx' = [w \in Workers |-> 1]
  /\ wleft' = [w \in Workers |-> 0]
  /\ processedFiles' = 0
  /\ visited' = {}
  /\ scanSelected' = {}
  /\ fileResult' = "none"
  /\ verifyResult' = "none"
  /\ verifyEnd' = "none"
  /\ result' = "none"
  /\ calls' = <<>>
  /\ markerWrites' = 0
  /\ cpc' = "off"
  /\ cfolder' = 1
  /\ cseen' = {}
  /\ cleanupResult' = "none"
  /\ transferFailures' = {}
  /\ lateTouched' = lateTouched
  /\ touched' = touched
  /\ UNCHANGED <<daemonMode, type, excludeExtensions, notificationStrategy,
                 transferStrategy, lastBackupFile, gShutdownFlag, now,
                 sigPhase, daemonVars, retentionDays, artifactTime, present,
                 threshold, schedVars, mainVars, dirState, unreadable>>

\* Two one-shot runs of the daily type, the first full or incremental with no
\* marker file yet, nothing excluded, no notification and no transfer.
InitRuns ==
  /\ MainOff
  /\ EnvOff
  /\ daemonMode = FALSE
  /\ type = "daily"
  /\ fullBackup \in BOOLEAN
  /\ excludeExtensions = {}
  /\ notificationStrategy = FALSE
  /\ transferStrategy = FALSE
  /\ lastBackupFile = [exists |-> FALSE, text |-> <<>>]
  /\ markerPre = lastBackupFile
  /\ gShutdownFlag = FALSE
  /\ now = StartSec * TicksPerSec
  /\ pc = "start"
  /\ dbBackupFile = ""
  /\ dbResult = "none"
  /\ totalFiles = 0
  /\ counted = {}
  /\ arState = "absent"
  /\ arEntries = <<>>
  /\ arIntact = 0
  /\ arDamaged = FALSE
  /\ archiveMutex = 0
  /\ wpc = [w \in Workers |-> "idle"]
  /\ widx = [w \in Workers |-> 1]
  /\ wleft = [w \in Workers |-> 0]
  /\ processedFiles = 0
  /\ visited = {}
  /\ scanSelected = {}
  /\ fileResult = "none"
  /\ verifyResult = "none"
  /\ verifyEnd = "none"
  /\ result = "none"
  /\ calls = <<>>
  /\ markerWrites = 0
  /\ sigPhase = "none"
  /\ transferFailures = {}
  /\ dpc = "off"
  /\ scheduleTime = 0
  /\ nextBackup = 0
  /\ remaining = 0
  /\ sleptToward = {}
  /\ runLog = {}
  /\ computations = 0
  /\ retentionDays = 1
  /\ artifactTime = [p \in {"sys/1.tar.gz"} |-> 0]
  /\ present = {"sys/1.tar.gz"}
  /\ cpc = "off"
  /\ cfolder = 1
  /\ cseen = {}
  /\ threshold = 0
  /\ cleanupResult = "none"
  /\ scheduleType = "daily"
  /\ scheduleDayOfWeek = "monday"
  /\ scheduleDayOfMonth = 1
  /\ spc = "off"

NextRuns ==
  \/ ClockAdvance
  \/ \E p \in DOMAIN touched : ModifyFile(p)
  \/ StartNextRun
  \/ CheckType
  \/ DbBackup
  \/ CountFiles
  \/ OpenArchive
  \/ JoinThreads
  \/ CloseArchive
  \/ WriteMarker
  \/ \E w \in Workers : WorkerScan(w)
  \/ \E w \in Workers : WorkerLock(w)
  \/ \E w \in Workers : WorkerHeader(w)
  \/ \E w \in Workers : WorkerWriteHeader(w)
  \/ \E w \in Workers : WorkerCopy(w)
  \/ \E w \in Workers : WorkerAfter(w)
  \/ FileBackupFailed
  \/ VerifyBackup
  \/ ChangeOwnership
  \/ Transfer
  \/ CleanupBegin
  \/ CleanupOpenFolder
  \/ CleanupEntry
  \/ Cleanup

SpecRuns == InitRuns /\ [][NextRuns]_vars

\* ------------------------------------- a run over sources that may fail

\* A run of the daily type, one-shot or of the daemon, with no marker file
\* yet and nothing excluded, over source directories each of which exists,
\* is missing or cannot be accessed, and source files some of which cannot be
\* opened.
InitFiles ==
  /\ MainOff
  /\ touched = [p \in {e.path : e \in RegularFiles} |-> -1]
  /\ lateTouched = {}
  /\ runNo = 1
  /\ dirState \in [DOMAIN Listing -> {"ok", "missing", "denied"}]
  /\ unreadable \in SUBSET {"/srv/a.txt", "/etc/passwd"}
  /\ daemonMode \in BOOLEAN
  /\ type = "daily"
  /\ fullBackup \in (IF daemonMode THEN {FALSE} ELSE BOOLEAN)
  /\ excludeExtensions = {}
  /\ notificationStrategy = FALSE
  /\ transferStrategy = FALSE
  /\ lastBackupFile = [exists |-> FALSE, text |-> <<>>]
  /\ markerPre = lastBackupFile
  /\ gShutdownFlag = FALSE
  /\ now = StartSec * TicksPerSec
  /\ pc = "start"
  /\ dbBackupFile = ""
  /\ dbResult = "none"
  /\ totalFiles = 0
  /\ counted = {}
  /\ arState = "absent"
  /\ arEntries = <<>>
  /\ arIntact = 0
  /\ arDamaged = FALSE
  /\ archiveMutex = 0
  /\ wpc = [w \in Workers |-> "idle"]
  /\ widx = [w \in Workers |-> 1]
  /\ wleft = [w \in Workers |-> 0]
  /\ processedFiles = 0
  /\ visited = {}
  /\ scanSelected = {}
  /\ fileResult = "none"
  /\ verifyResult = "none"
  /\ verifyEnd = "none"
  /\ result = "none"
  /\ calls = <<>>
  /\ markerWrites = 0
  /\ sigPhase = "none"
  /\ transferFailures = {}
  /\ dpc = "off"
  /\ scheduleTime = 0
  /\ nextBackup = 0
  /\ remaining = 0
  /\ sleptToward = {}
  /\ runLog = {}
  /\ computations = 0
  /\ retentionDays = 1
  /\ artifactTime = [p \in {"sys/1.tar.gz"} |-> 0]
  /\ present = {"sys/1.tar.gz"}
  /\ cpc = "off"
  /\ cfolder = 1
  /\ cseen = {}
  /\ threshold = 0
  /\ cleanupResult = "none"
  /\ scheduleType = "daily"
  /\ scheduleDayOfWeek = "monday"
  /\ scheduleDayOfMonth = 1
  /\ spc = "off"

SpecFiles == InitFiles /\ [][Next]_vars

\* ================================================================ properties

InCalls(c) == \E i \in 1..Len(calls) : calls[i] = c

InArchive(p) == \E i \in 1..Len(arEntries) : arEntries[i].path = p

\* The marker time of the run: the marker file as the run found it, read as an
\* incremental run reads it.
MarkerTime == LastBackupTimeOf(markerPre, FALSE)

\* countFiles has returned: the run is past it, and no exception left the run
\* before it or in it.
Counted ==
  /\ pc \notin {"idle", "start", "db", "count"}
  /\ ValidType(type)
  /\ ~(result = Threw /\ cleanupResult # "threw")

\* TarGzFileBackupStrategy::execute has returned.
FileExecuteReturned == fileResult # "none"

\* C1: the marker file is written at most once per run, only after the run's
\* archive has been verified, and it keeps its pre-run value whenever the run
\* ends with an error (interrupted, failed, or failed verification).
C1_MarkerOnlyAfterVerifiedSuccess ==
  /\ markerWrites <= 1
  /\ markerWrites > 0 => verifyResult = "true"
  /\ (pc = "done" /\ result # "ok") => (markerWrites = 0 /\ lastBackupFile = markerPre)

\* C2 as stated: whenever the flag was set at any point during a run of
\* TarGzFileBackupStrategy::execute, execute returns the interruption error with
\* the archive closed and the marker file unchanged.
C2_InterruptedWheneverSignalled ==
  (FileExecuteReturned /\ sigPhase \in {"mid", "late"})
    => /\ fileResult = Interrupted
       /\ arState = "closed"
       /\ markerWrites = 0 /\ lastBackupFile = markerPre

\* C2 amended: when the flag was set during execute before its check of the flag
\* after the join, in a run that opened its archive and spawned its workers,
\* execute returns the interruption error with the archive closed and the marker
\* file unchanged.
C2_InterruptedWhenSignalledBeforeJoinCheck ==
  (FileExecuteReturned /\ sigPhase = "mid" /\ arState # "absent")
    => /\ fileResult = Interrupted
       /\ arState = "closed"
       /\ markerWrites = 0 /\ lastBackupFile = markerPre

\* A run interrupted in the middle of a file: the archive is closed and holds an
\* entry whose content was cut short.
C2_Witness ==
  /\ fileResult = Interrupted
  /\ sigPhase = "mid"
  /\ arState = "closed"
  /\ \E i \in 1..Len(arEntries) : arEntries[i].written < arEntries[i].size

\* C3: while the flag is not set, every run time the daemon has slept toward
\* and the loop has moved past (its next run time is a later one) had a backup
\* run triggered for it.
C3_SleptOccurrenceIsRun ==
  ~gShutdownFlag =>
    \A t \in sleptToward : nextBackup > t => t \in runLog

\* C4: in an incremental run, a regular file that is not excluded is selected,
\* by countFiles and by the workers' scan, exactly when its modified time is
\* strictly after the marker time.
C4_IncrementalSelectsExactlyNewer ==
  ~fullBackup =>
    \A e \in RegularFiles :
      ~isExcluded(e.ext) =>
        /\ Counted => (e.path \in counted <=> e.mtime > MarkerTime)
        /\ e.path \in visited => (e.path \in scanSelected <=> e.mtime > MarkerTime)

\* C5: in a full run every regular file whose extension is not in the exclusion
\* set is counted by countFiles and, once a worker reaches it, selected by the
\* scan, whatever its modified time and whatever the marker file holds.
C5_FullBackupSelectsAll ==
  fullBackup =>
    \A e \in RegularFiles :
      e.ext \notin excludeExtensions =>
        /\ Counted => e.path \in counted
        /\ e.path \in visited => e.path \in scanSelected

\* A full run that counted and scanned a file not newer than a marker that
\* parses.
C5_Witness ==
  /\ fullBackup
  /\ markerPre.exists /\ Stol(markerPre.text).ok
  /\ \E e \in RegularFiles :
       /\ e.mtime <= MarkerTime
       /\ e.path \in counted /\ e.path \in scanSelected /\ InArchive(e.path)

\* C6 as stated: a file whose extension is in the exclusion set is never counted
\* and never written to the archive.
C6_ExcludedNeverIncluded ==
  \A e \in RegularFiles :
    e.ext \in excludeExtensions =>
      e.path \notin counted /\ e.path \notin scanSelected /\ ~InArchive(e.path)

\* C6 amended: a file whose extension is not empty and is in the exclusion set
\* is never counted and never written to the archive, in full and incremental
\* runs, also when it is newer than the marker.
C6_NonEmptyExcludedNeverIncluded ==
  \A e \in RegularFiles :
    (e.ext # "" /\ e.ext \in excludeExtensions) =>
      e.path \notin counted /\ e.path \notin scanSelected /\ ~InArchive(e.path)

\* An incremental run that ended in success, in which a worker came to an
\* excluded file newer than the marker and left it out while the archive got
\* another file.
C6_Witness ==
  /\ pc = "done" /\ result = "ok" /\ ~fullBackup
  /\ Len(arEntries) > 0
  /\ \E e \in RegularFiles :
       /\ e.ext # "" /\ e.ext \in excludeExtensions
       /\ e.mtime > MarkerTime + MaxJitter
       /\ e.path \in visited /\ ~InArchive(e.path)

\* C7: when countFiles returns zero, execute returns success with no archive
\* file created or written and no worker thread started.
C7_NoFilesNoArchive ==
  (FileExecuteReturned /\ totalFiles = 0)
    => /\ fileResult = "ok"
       /\ arState = "absent" /\ arEntries = <<>>
       /\ \A w \in Workers : wpc[w] = "idle"
       /\ processedFiles = 0

\* An incremental run that counted nothing and returned.
C7_Witness ==
  /\ pc = "fileReturned" /\ totalFiles = 0 /\ fileResult = "ok"
  /\ ~fullBackup /\ counted = {}

\* C8: after execute returned success, verifyBackup of the same path returns
\* true and every entry the run wrote is readable.
C8_SuccessThenVerifyTrue ==
  verifyResult # "none"
    => verifyResult = "true" /\ arIntact = Len(arEntries) /\ ~arDamaged

\* C9: verifyBackup returns an error when the archive cannot be opened or a
\* header fails to decode before the end of the stream, and true only when the
\* headers were decoded up to the end of the stream.
C9_VerifyReportsDecodeErrors ==
  verifyEnd # "none"
    => /\ verifyResult = "true" <=> verifyEnd = "ARCHIVE_EOF"
       /\ verifyEnd \in {"open failed", "ARCHIVE_FATAL"} => verifyResult = "error"

\* What Backup::execute does after a failed verification, apart from notifying:
\* it returns an error and makes no ownership change, transfer or cleanup.
FatalVerifyFailure ==
  /\ result = "Backup verification failed"
  /\ ~InCalls("chown:sys") /\ ~InCalls("chown:db")
  /\ ~InCalls("transfer:sys") /\ ~InCalls("transfer:db")
  /\ ~InCalls("cleanup")

\* C10 as stated: a failed verification sends a notification, returns an error
\* and is followed by no transfer, ownership change or cleanup.
C10_VerifyFailureNotifiesAndStops ==
  (pc = "done" /\ verifyResult = "error")
    => InCalls("notify:Backup verification failed") /\ FatalVerifyFailure

\* C10 amended: the notification is sent when a notification strategy is
\* configured.
C10_VerifyFailureStops ==
  (pc = "done" /\ verifyResult = "error")
    => /\ notificationStrategy => InCalls("notify:Backup verification failed")
       /\ ~notificationStrategy => ~InCalls("notify:Backup verification failed")
       /\ FatalVerifyFailure

\* A run whose verification failed, with both a notification and a transfer
\* strategy configured.
C10_Witness ==
  /\ pc = "done" /\ verifyResult = "error"
  /\ notificationStrategy /\ transferStrategy
  /\ InCalls("notify:Backup verification failed")

\* The regular files the backup folders held when the cleanup began.
RegularArtifacts == {p \in DOMAIN artifactTime : ArtifactAt(p).kind = "file"}

\* cleanupOldBackups has returned success.
CleanupSucceeded == cpc = "returned" /\ cleanupResult = "ok"

\* C11: when cleanupOldBackups returns success, every regular file of the two
\* backup folders whose last-write time is before now minus retentionDays days
\* has been deleted, and every other entry is still in place.
C11_CleanupDeletesExactlyOld ==
  CleanupSucceeded =>
    /\ \A p \in RegularArtifacts :
         (p \notin present) <=> (artifactTime[p] < Threshold(now, retentionDays))
    /\ (DOMAIN artifactTime) \ RegularArtifacts \subseteq present

\* The cleanup step of the run failed: cleanupOldBackups returned an error (a
\* file could not be removed) or threw (a folder could not be enumerated).
CleanupFailed == cleanupResult \in {"error", "threw"}

\* C12: a run whose cleanup step fails, after a successful and verified file
\* backup, still returns success from Backup::execute.
C12_CleanupFailureKeepsSuccess ==
  (pc = "done" /\ CleanupFailed) => result = "ok"

\* getNextBackupTime has returned a run time for the given schedule type.
Returned(st) == spc = "returned" /\ scheduleType = st

\* The instants (in ticks) at the time of day of the schedule.
AtScheduleTime(x) ==
  x % TicksPerSec = 0 /\ LocalTime(ToTimeT(x)).sec = scheduleTime

\* C13: for a daily schedule with a valid time of day T, getNextBackupTime
\* returns today at T when that is after now and else tomorrow at T: the
\* earliest instant strictly after now whose time of day is T.
C13_DailyIsEarliestAfterNow ==
  Returned("daily") =>
    LET today == LocalTime(ToTimeT(now))
        atT   == FromTimeT(MkTime([today EXCEPT !.sec = scheduleTime]))
    IN /\ nextBackup = IF atT > now THEN atT ELSE atT + DayTicks
       /\ nextBackup > now
       /\ AtScheduleTime(nextBackup)
       /\ \A x \in (now + 1)..(nextBackup - 1) : ~AtScheduleTime(x)

\* A daily schedule whose time of day is exactly now, which rolls to tomorrow.
C13_Witness ==
  /\ Returned("daily")
  /\ now = FromTimeT(MkTime([LocalTime(ToTimeT(now)) EXCEPT !.sec = scheduleTime]))
  /\ nextBackup = now + DayTicks

\* Today (the day of now) at the time of day of the schedule, in ticks.
TodayAtT == FromTimeT(MkTime([LocalTime(ToTimeT(now)) EXCEPT !.sec = scheduleTime]))

\* C14: for a weekly schedule with a valid day name D and time of day T,
\* getNextBackupTime returns today at T plus (D - currentWeekday + 7) mod 7
\* days, and plus 7 days when that delta is zero and today's T is not after
\* now; the result is on weekday D at time T, strictly after now and at most
\* 7 days after now.
C14_WeeklyNextOccurrence ==
  Returned("weekly") =>
    LET target == dayMap[scheduleDayOfWeek]
        delta  == (target - LocalTime(ToTimeT(now)).wday + 7) % 7
        add    == IF delta = 0 /\ TodayAtT <= now THEN 7 ELSE delta
    IN /\ nextBackup = TodayAtT + add * DayTicks
       /\ LocalTime(ToTimeT(nextBackup)).wday = target
       /\ AtScheduleTime(nextBackup)
       /\ nextBackup > now
       /\ nextBackup <= now + 7 * DayTicks

\* A weekly schedule for today's weekday whose time of day has passed: the
\* run time is a week from today's.
C14_Witness ==
  /\ Returned("weekly")
  /\ dayMap[scheduleDayOfWeek] = LocalTime(ToTimeT(now)).wday
  /\ TodayAtT < now
  /\ nextBackup = TodayAtT + 7 * DayTicks

\* C15: for a monthly schedule with a day of the month d in 1..31 and a valid
\* time of day T, getNextBackupTime returns an instant on day d at T: of the
\* current month when that instant is after now, and else of the following
\* month.
C15_MonthlyOnConfiguredDay ==
  Returned("monthly") =>
    LET today   == LocalTime(ToTimeT(now))
        thisOne == FromTimeT(MkTime([today EXCEPT !.sec = scheduleTime,
                                                   !.mday = scheduleDayOfMonth]))
        wraps   == today.mon = 11
        nextOne == FromTimeT(MkTime([today EXCEPT
                                       !.sec  = scheduleTime,
                                       !.mday = scheduleDayOfMonth,
                                       !.mon  = IF wraps THEN 0 ELSE @ + 1,
                                       !.year = IF wraps THEN @ + 1 ELSE @]))
    IN /\ nextBackup = IF thisOne > now THEN thisOne ELSE nextOne
       /\ LocalTime(ToTimeT(nextBackup)).mday = scheduleDayOfMonth
       /\ AtScheduleTime(nextBackup)

\* C16: a schedule getNextBackupTime rejects (an invalid type, time of day,
\* day name or day of the month) is fatal: no backup run starts and the daemon
\* does not compute the schedule a second time.
C16_InvalidScheduleNotRetried ==
  getNextBackupTimeThrows => (runLog = {} /\ computations <= 1)

\* C17: while the daemon waits for a run time, time passes only in sleeps of
\* one second each, made with the flag seen clear; with the flag set the
\* daemon's next step leaves the wait without sleeping.
C17_SleepsSecondBySecond ==
  [][ /\ (dpc = "sleep" /\ now' # now) =>
           (~gShutdownFlag /\ remaining > 0 /\ remaining' = remaining - 1)
      /\ (dpc = "sleep" /\ gShutdownFlag) => (dpc' = "loop" /\ now' = now) ]_vars

\* The wait left on the flag with whole seconds of it remaining.
C17_Witness == gShutdownFlag /\ dpc = "loop" /\ remaining > 0

\* C18: once the flag is set runDaemon terminates, and no backup run is
\* started by a loop iteration that has the flag set.
C18_DaemonTerminatesOnFlag ==
  /\ gShutdownFlag ~> (dpc = "exited")
  /\ [][gShutdownFlag => ~(dpc # "run" /\ dpc' = "run")]_vars

\* The loop left on the flag after a run had been triggered.
C18_Witness == gShutdownFlag /\ dpc = "exited" /\ runLog # {}

\* No run of Backup::execute is in progress and no worker thread is alive.
NoRunInProgress ==
  /\ pc \in {"idle", "done"}
  /\ \A w \in Workers : wpc[w] \in {"idle", "done"}
  /\ archiveMutex = 0

\* C19: the daemon triggers a run only when no run is in progress: the run of
\* the previous loop iteration has returned and every worker thread of it has
\* ended; and worker threads are alive only within a run in progress.
C19_OneRunAtATime ==
  /\ [][(dpc' = "running" /\ dpc # "running") => NoRunInProgress]_vars
  /\ [](dpc # "running" => NoRunInProgress)

\* A second run triggered after a run whose workers archived files and which
\* wrote the marker.
C19_Witness ==
  /\ dpc = "running"
  /\ pc = "start"
  /\ computations >= 2
  /\ markerPre.exists

\* The run has ended after a transfer of it failed.
EndedAfterTransferFailure == pc = "done" /\ transferFailures # {}

\* The notifications of the failed transfers have been sent.
TransferFailuresNotified ==
  /\ "sys" \in transferFailures => InCalls("notify:File transfer failed")
  /\ "db" \in transferFailures => InCalls("notify:Database transfer failed")

OutcomeNotice ==
  IF result = "ok" THEN "notify:Backup completed" ELSE "notify:" \o result

\* C21: with a notification strategy configured, a run of Backup::execute that
\* has ended, with success or with an error reported to its caller, has sent
\* the notification of that outcome as its last collaborator call.
C21_NotifiedOnEveryOutcome ==
  (notificationStrategy /\ pc = "done") =>
    (calls # <<>> /\ calls[Len(calls)] = OutcomeNotice)

\* The number a marker text reads as when all of it is decimal digits.
WholeNumber(s) == CHOOSE v \in 0..99 : ToDigits(v) = s

\* The number the longest run of leading digits of a marker text reads as.
LeadingNumber(s) ==
  CHOOSE v \in 0..99 :
    \E k \in 1..Len(s) :
      /\ ToDigits(v) = SubSeq(s, 1, k)
      /\ k = Len(s) \/ ~IsDigit(s[k + 1])

\* The marker time when only a text that is a decimal integer counts.
StrictMarkerTime ==
  IF /\ markerPre.exists
     /\ markerPre.text # <<>>
     /\ \A i \in 1..Len(markerPre.text) : IsDigit(markerPre.text[i])
  THEN WholeNumber(markerPre.text) * TicksPerSec
  ELSE 0

\* The marker time when the leading digits of the text count.
LeadingMarkerTime ==
  IF markerPre.exists /\ markerPre.text # <<>> /\ IsDigit(markerPre.text[1])
  THEN LeadingNumber(markerPre.text) * TicksPerSec
  ELSE 0

\* The selection an incremental run makes agrees with marker time m: of the
\* regular files that are not excluded, those modified more than the clock's
\* jitter after m are counted and, once scanned, selected, and those modified
\* at least the jitter before m are neither.
SelectionAgreesWith(m) ==
  \A f \in RegularFiles :
    ~isExcluded(f.ext) =>
      /\ f.mtime - MaxJitter > m =>
           (f.path \in counted /\ (f.path \in visited => f.path \in scanSelected))
      /\ f.mtime + MaxJitter <= m =>
           (f.path \notin counted /\ f.path \notin scanSelected)

C23_InterruptedRunNotPromoted ==
  (fileResult = Interrupted) =>
    /\ pc \in {"fileReturned", "done"}
    /\ arState = "closed"
    /\ ~InCalls("verify")
    /\ ~InCalls("transfer:sys")
    /\ ~InCalls("transfer:db")
    /\ markerWrites = 0
    /\ lastBackupFile = markerPre
    /\ pc = "done" => result = "File backup failed"

\* An interrupted run that has ended and left an archive whose last entry is
\* cut short.
C23_Witness ==
  /\ pc = "done"
  /\ fileResult = Interrupted
  /\ arEntries # <<>>
  /\ arEntries[Len(arEntries)].written < arEntries[Len(arEntries)].size

\* Whether what the process was asked for succeeded: the one run returned
\* success, or the daemon started, ran its loop and left it on shutdown.
OperationSucceeded == IF daemonMode THEN dpc = "exited" ELSE result = "ok"

\* C24: once main has returned, the exit code is 0 when the requested
\* operation succeeded and 1 otherwise, a daemon that could not start
\* included.
C24_ExitCodeTellsSuccess ==
  (mpc = "exit") => (exitCode = IF OperationSucceeded THEN 0 ELSE 1)

\* The workers between the lock and the end of their entry's payload.
InCriticalSection == {w \in Workers : wpc[w] \in {"locked", "header", "copy"}}

\* C25: at most one worker at a time is between taking the archive mutex and
\* the end of its entry's payload, and that worker is the holder of the
\* mutex; while a worker writes payload the archive's last header is the one
\* of the worker's own file, so every payload write follows its own header
\* with no other entry in between; a worker anywhere else, ended workers
\* included, does not hold the mutex.
C25_ArchiveMutualExclusion ==
  /\ Cardinality(InCriticalSection) <= 1
  /\ \A w \in Workers :
       /\ w \in InCriticalSection <=> archiveMutex = w
       /\ wpc[w] = "copy" =>
            /\ arEntries # <<>>
            /\ arEntries[Len(arEntries)].path = EntryAt(w).path
            /\ arEntries[Len(arEntries)].written + wleft[w]
                 = arEntries[Len(arEntries)].size
  /\ (\A w \in Workers : wpc[w] = "done") => archiveMutex = 0

\* One worker writes its file's payload while the other waits for the mutex.
C25_Witness ==
  \E w, v \in Workers :
    /\ wpc[w] = "copy"
    /\ arEntries[Len(arEntries)].written > 0
    /\ wpc[v] = "lock"

\* C26: a file written after the first run examined it and before that run
\* wrote the marker is counted by the next incremental run and, once that
\* run's worker has examined it, selected.
C26_NoModificationLost ==
  (runNo = 2) =>
    \A p \in lateTouched :
      /\ Counted => p \in counted
      /\ p \in visited => p \in scanSelected

\* C27: for every schedule getNextBackupTime accepts (daily, weekly or
\* monthly, with a valid time of day) and every current time, the run time it
\* returns is strictly later than the current time, so that the daemon's loop
\* sleeps before it triggers a run.
C27_NextRunStrictlyLater ==
  (spc = "returned") => nextBackup > now

\* The schedule types getNextBackupTime computes a run time for.
ScheduleTypes == {"daily", "weekly", "monthly"}

\* C28: a run the daemon triggers with a schedule type getNextBackupTime
\* accepts as its backup type does not end with the invalid-backup-type error
\* and reaches the file backup step.
C28_ScheduleTypesAreBackupTypes ==
  (daemonMode /\ type \in ScheduleTypes /\ pc = "done") =>
    (result # "Invalid backup type" /\ fileResult # "none")

\* The moves a worker makes once the flag is set: a thread just spawned
\* starts its loop, a worker past the check under the lock writes its header,
\* and every position leads toward the end of the task.
StoppingMoves ==
  {<<"idle", "scan">>, <<"scan", "done">>, <<"lock", "locked">>,
   <<"locked", "done">>, <<"header", "copy">>, <<"copy", "after">>,
   <<"after", "done">>}

\* C29: in every step taken while the flag is set, no payload is written to
\* the archive and no header but that of a worker which had passed the check
\* under the lock, no further file is examined, selected or counted as
\* processed, every worker that moves makes a move toward its end (from the
\* loop head, from under the mutex, and from the copy loop), and a worker
\* that leaves the critical section or ends does not hold the mutex.
C29_FlagStopsWorkers ==
  [][gShutdownFlag =>
       /\ \/ arEntries' = arEntries
          \/ \E w \in Workers :
               /\ wpc[w] = "header"
               /\ arEntries' = Append(arEntries, arEntries'[Len(arEntries')])
               /\ arEntries'[Len(arEntries')].written = 0
       /\ visited' = visited
       /\ scanSelected' = scanSelected
       /\ processedFiles' = processedFiles
       /\ widx' = widx
       /\ \A w \in Workers :
            /\ wpc'[w] # wpc[w] => <<wpc[w], wpc'[w]>> \in StoppingMoves
            /\ wpc'[w] \in {"after", "done"} => archiveMutex' # w]_vars

\* The workers have ended under the flag, the last entry of the archive is
\* cut short and a file of the sources was never examined.
C29_Witness ==
  /\ gShutdownFlag
  /\ \A w \in Workers : wpc[w] = "done"
  /\ arEntries # <<>>
  /\ arEntries[Len(arEntries)].written < arEntries[Len(arEntries)].size
  /\ \E f \in RegularFiles : f.path \notin visited

\* Every worker task has ended.
AllTasksEnded == \A w \in Workers : wpc[w] = "done"

EntryPositions == 1..Len(arEntries)

\* The paths of the archive's entries.
ArchivedPaths == {arEntries[i].path : i \in EntryPositions}

\* The place of a path in the traversal of its source directory.
TraversalIndex(w, p) ==
  CHOOSE i \in 1..Len(Listing[sourceDirs[w]]) : Listing[sourceDirs[w]][i].path = p

\* The source directory (by its position in sourceDirs) a path is under.
DirOf(p) ==
  CHOOSE w \in Workers :
    \E i \in 1..Len(Listing[sourceDirs[w]]) : Listing[sourceDirs[w]][i].path = p

\* The run was not cancelled and every worker task has ended.
UncancelledTasksEnded ==
  /\ ~gShutdownFlag
  /\ arState # "absent"
  /\ \A w \in Workers : wpc[w] = "done"

\* The regular files of the source directories that exist and are not
\* excluded.
Candidates ==
  {e.path : e \in {f \in RegularFiles :
     /\ ~isExcluded(f.ext)
     /\ \E w \in Workers :
          /\ DirExists(sourceDirs[w])
          /\ \E i \in 1..Len(Listing[sourceDirs[w]]) : Listing[sourceDirs[w]][i] = f}}

\* The archive holds each path once, and the entries of one source directory
\* are in the order of that directory's traversal.
EntriesInTraversalOrder ==
  \A i, j \in EntryPositions :
    i < j =>
      /\ arEntries[i].path # arEntries[j].path
      /\ DirOf(arEntries[i].path) = DirOf(arEntries[j].path) =>
           TraversalIndex(DirOf(arEntries[i].path), arEntries[i].path)
             < TraversalIndex(DirOf(arEntries[j].path), arEntries[j].path)

\* C31 as stated: on an uncancelled run, once the tasks have ended, the paths
\* in the archive are the files the workers' selection test passed, and the
\* entries of one directory are in its traversal order.
C31_ArchiveIsSelection ==
  UncancelledTasksEnded =>
    (ArchivedPaths = scanSelected /\ EntriesInTraversalOrder)

\* C31 amended: on an uncancelled run, once the tasks have ended, the paths
\* in the archive are the files the workers' selection test passed and whose
\* open succeeded (on a full backup: every candidate that could be opened),
\* each with its whole content, whatever the interleaving; and the entries of
\* one directory are in its traversal order.
C31_ArchiveIsReadableSelection ==
  UncancelledTasksEnded =>
    /\ ArchivedPaths = scanSelected \ unreadable
    /\ fullBackup => scanSelected = Candidates
    /\ \A i \in EntryPositions : arEntries[i].written = arEntries[i].size
    /\ EntriesInTraversalOrder

\* An uncancelled run has ended its tasks with files of both directories in
\* the archive, the second directory's entry between the first directory's
\* two.
C31_Witness ==
  /\ UncancelledTasksEnded
  /\ unreadable = {}
  /\ Len(arEntries) = 3
  /\ arEntries[1].path = "/srv/a.txt"
  /\ arEntries[2].path = "/etc/passwd"
  /\ arEntries[3].path = "/srv/b.log"

\* The entries whose header was written when the flag was already set.
LateHeaders == {i \in EntryPositions : arEntries[i].late}

\* C32: at most one entry header is written after the flag was set, and it
\* has no payload after it; and in every step, a worker that is under the
\* lock at its check with the flag set (as is every worker that took the
\* lock after the flag was set) stays there or ends, and never goes on to
\* write.
C32_OneLateHeaderAtMost ==
  /\ [](Cardinality(LateHeaders) <= 1)
  /\ [](\A i \in LateHeaders : i = Len(arEntries) /\ arEntries[i].written = 0)
  /\ [][\A w \in Workers :
          (gShutdownFlag /\ wpc[w] = "locked") => wpc'[w] \in {"locked", "done"}]_vars

\* A header was written after the flag was set, and the other worker then
\* took the lock, saw the flag and ended.
C32_Witness ==
  /\ Cardinality(LateHeaders) = 1
  /\ \A w \in Workers : wpc[w] = "done"
  /\ scanSelected \ ArchivedPaths # {}

\* TarGzFileBackupStrategy::execute has returned.
FileExecuteIsBack == pc \notin {"start", "db", "count", "open", "join", "close", "marker"}

\* The verifyBackup calls the run has made.
VerifyCalls == {i \in 1..Len(calls) : calls[i] = "verify"}

\* C33: the archive goes from absent to open to closed and no other way; it
\* is closed only when every worker task has ended; once closed it is never
\* written, reopened or closed again; when execute has returned after opening
\* the archive, the archive is closed; and Backup::execute calls verifyBackup
\* at most once, and for an archive the run opened only after its close.
C33_ArchiveLifecycle ==
  /\ [][/\ arState' # arState =>
             \/ arState = "absent" /\ arState' = "open"
             \/ /\ arState = "open"
                /\ arState' = "closed"
                /\ \A w \in Workers : wpc[w] = "done"
        /\ arState = "closed" => arEntries' = arEntries]_vars
  /\ []((FileExecuteIsBack /\ arState # "absent") => arState = "closed")
  /\ [](Cardinality(VerifyCalls) <= 1)
  /\ []((VerifyCalls # {} /\ arState # "absent") => arState = "closed")

\* A run has verified, once, a closed archive that holds entries.
C33_Witness ==
  /\ Cardinality(VerifyCalls) = 1
  /\ arState = "closed"
  /\ arEntries # <<>>
  /\ pc = "done"

\* The entries whose whole content is in the archive.
WholeEntries == {i \in EntryPositions : arEntries[i].written = arEntries[i].size}

\* C34: the progress counter never exceeds the total countFiles returned and
\* never the number of entries written whole; and when the tasks of an
\* uncancelled run have ended with every selected file readable, it equals
\* that total and the number of entries.
C34_ProgressWithinTotal ==
  /\ (pc \notin {"start", "db", "count"}) => processedFiles <= totalFiles
  /\ processedFiles <= Cardinality(WholeEntries)
  /\ (UncancelledTasksEnded /\ scanSelected \cap unreadable = {}) =>
       (processedFiles = totalFiles /\ processedFiles = Len(arEntries))

\* The number a marker file holds.
MarkerSeconds(m) == Stol(m.text).val

\* C35: the marker file changes only at the marker step of a run whose
\* archive is closed, and what is written is the clock's time, in whole
\* seconds, at that step; and the marker a second successful run writes is
\* not below the one the first run wrote.
C35_MarkerIsTimeAfterClose ==
  /\ [][lastBackupFile' # lastBackupFile =>
          /\ pc = "marker"
          /\ arState = "closed"
          /\ lastBackupFile'.exists
          /\ Stol(lastBackupFile'.text).ok
          /\ MarkerSeconds(lastBackupFile') * TicksPerSec <= now
          /\ now < (MarkerSeconds(lastBackupFile') + 1) * TicksPerSec]_vars
  /\ []((runNo = 2 /\ markerWrites = 1) =>
          MarkerSeconds(lastBackupFile) >= MarkerSeconds(markerPre))

\* The second run has written a marker a second after the first run's, which
\* was written at the second the run started in.
C35_Witness ==
  /\ runNo = 2
  /\ markerWrites = 1
  /\ MarkerSeconds(markerPre) = StartSec
  /\ MarkerSeconds(lastBackupFile) = StartSec + 1

\* C36: whatever source directories are missing or cannot be accessed and
\* whatever files cannot be opened, no exception leaves the run but one of
\* the cleanup or of the database step, the file backup of an uncancelled run returns no error but
\* that of the archive's own open, and when the tasks of an uncancelled run
\* have ended every selected file that could be opened is in the archive.
C36_SourceFailuresAbsorbed ==
  /\ (pc = "done" /\ result = Threw) =>
       (cleanupResult = "threw" \/ dbResult = "threw")
  /\ (FileExecuteIsBack /\ ~gShutdownFlag /\ pc # "done") =>
       fileResult \in {"ok", OpenFailed}
  /\ UncancelledTasksEnded => ArchivedPaths = scanSelected \ unreadable

\* C37: once the removal of an expired file has failed, cleanupOldBackups has
\* returned its error, and from then on no entry of either folder is
\* examined or deleted; the step in which the removal fails deletes nothing.
C37_RemoveFailureStopsCleanup ==
  /\ [](cleanupResult = "error" => cpc = "returned")
  /\ [][(cleanupResult = "error" \/ cleanupResult' = "error") =>
          (present' = present /\ cseen' = cseen /\ cfolder' = cfolder)]_vars

\* The cleanup has returned an error in the first folder, leaving an expired
\* file of the other folder in place.
C37_Witness ==
  /\ cleanupResult = "error"
  /\ cfolder = 1
  /\ \E p \in RegularArtifacts :
       /\ p \in present
       /\ ArtifactAt(p).folder = backupFolders[2]
       /\ artifactTime[p] + MaxJitter < threshold

\* C38: the step that handles an error caught by the daemon loop backs off
\* for the fixed interval and goes back to the loop when the flag is clear,
\* and leaves the loop with no backoff when the flag is set.
C38_BackoffUnlessCancelled ==
  [][(dpc = "catch" /\ dpc' # dpc) =>
       IF gShutdownFlag
       THEN dpc' = "exited" /\ now' = now
       ELSE dpc' = "loop" /\ now' >= now + BackoffSeconds * TicksPerSec]_vars

\* C39: in every step of the daemon, an iteration at its branch with a run
\* time that is not in the future and the flag clear goes to the run at once,
\* with no time passing, and records that one run; and the run, whatever its
\* outcome, is followed by the loop: directly when execute returned, through
\* the catch when an exception left it.
C39_DueRunTriggeredAtOnce ==
  [][/\ (dpc = "branch" /\ nextBackup <= now /\ ~gShutdownFlag /\ dpc' # dpc) =>
          /\ dpc' = "run"
          /\ now' = now
          /\ runLog' = runLog \cup {nextBackup}
     /\ (dpc = "run" /\ dpc' # dpc) => dpc' \in {"loop", "catch"}
     /\ (dpc = "run" /\ dpc' = dpc) => runLog' = runLog]_vars

\* A run was triggered for a run time that was not in the future, and the
\* loop has gone on to another iteration after it.
C39_Witness ==
  /\ dpc = "branch"
  /\ \E t \in runLog : t < nextBackup /\ t <= now
  /\ computations >= 2

\* The database step did not produce an artifact.
DbDumpFailed == dbResult \in {"error", "threw"}

\* C40: when the database step has failed, no ownership change and no
\* transfer is made for a database artifact, and a run that has ended ran
\* the file backup and, when the file backup, the verification, the
\* ownership change and the cleanup went through, made each of these calls
\* for the system archive and returned success.
C40_DbFailureDoesNotAbort ==
  DbDumpFailed =>
    /\ ~InCalls("chown:db") /\ ~InCalls("transfer:db")
    /\ pc = "done" => fileResult # "none"
    /\ (/\ pc = "done"
        /\ fileResult = "ok"
        /\ verifyResult = "true"
        /\ result # "Failed to change ownership"
        /\ cleanupResult # "threw") =>
          /\ result = "ok"
          /\ InCalls("verify") /\ InCalls("chown:sys") /\ InCalls("cleanup")
          /\ transferStrategy => InCalls("transfer:sys")

====
